---- MODULE Spec2Model ----
(***************************************************************************)
(* Snow-drift transport estimator (Tabler 2003) of functions/Snow_drift.py *)
(* and its callers, as a state machine of calls: each action is one call   *)
(* of one function of the source with inputs drawn from bounded sets, and  *)
(* the variables record the call, what it returned or raised, and which    *)
(* functions it invoked on the way.                                        *)
(*                                                                         *)
(* Numbers.  A Python float is modelled as an exact rational <<n, d>> in   *)
(* lowest terms with d > 0, or as NaN == <<0, 0>>.  Arithmetic is exact    *)
(* (binary64 rounding is not modelled); NaN propagates through arithmetic  *)
(* and makes every ordered comparison false, as in IEEE 754.               *)
(***************************************************************************)
EXTENDS Integers, Sequences, FiniteSets, TLC

VARIABLES op, args, result, trace, locals, frames, heap, session, script

\* the record of one call at a time: the function called, its arguments,
\* what it returned or raised, the functions it invoked, its local variables
callvars == <<op, args, result, trace, locals>>

\* concurrent invocations: each thread's frame (position and local
\* variables), and the objects the frames refer to
threadvars == <<frames, heap>>

\* the dashboard: st.session_state of the browser session, and the record
\* of the last script run (what it was given, what it rendered or raised)
appvars == <<session, script>>

vars == <<op, args, result, trace, locals, frames, heap, session, script>>

---------------------------------------------------------------------------
(* Bounds of the model *)

\* longest wind-speed / wind-direction sequence passed to the core functions
MaxHours == 2
\* most rows in a meteorological CSV
MaxRows == 2
\* number of calendar years the timestamps of the model range over
NumYears == 2
\* first of those calendar years
FirstYear == 2021

\* the calls of st.rerun() after one action of the user that are counted
MaxReruns == 3

---------------------------------------------------------------------------
(* Floats *)

NaN == <<0, 0>>

IsNaN(x) == x[2] = 0

Abs(n) == IF n < 0 THEN -n ELSE n

RECURSIVE GCD(_, _)
GCD(a, b) == IF b = 0 THEN a ELSE GCD(b, a % b)

\* the float n/d (d # 0), in lowest terms
Rat(n, d) ==
    LET g == GCD(Abs(n), Abs(d))
        s == IF d < 0 THEN -1 ELSE 1
    IN  <<(s * n) \div g, Abs(d) \div g>>

Flt(n) == <<n, 1>>

FNeg(a) == IF IsNaN(a) THEN NaN ELSE <<-a[1], a[2]>>

FAdd(a, b) ==
    IF IsNaN(a) \/ IsNaN(b) THEN NaN
    ELSE LET g == GCD(a[2], b[2])
             l == (a[2] \div g) * b[2]
         IN  Rat(a[1] * (l \div a[2]) + b[1] * (l \div b[2]), l)

FSub(a, b) == FAdd(a, FNeg(b))

FMul(a, b) ==
    IF IsNaN(a) \/ IsNaN(b) THEN NaN
    ELSE LET g1 == GCD(Abs(a[1]), b[2])
             g2 == GCD(Abs(b[1]), a[2])
         IN  Rat((a[1] \div g1) * (b[1] \div g2), (a[2] \div g2) * (b[2] \div g1))

\* a / b for b # 0 (Python raises ZeroDivisionError on b = 0; no caller
\* modelled here divides by zero)
FDiv(a, b) ==
    IF IsNaN(a) \/ IsNaN(b) THEN NaN
    ELSE FMul(a, Rat(b[2], b[1]))

\* a1/a2 < b1/b2 for a2, b2 > 0, by whole parts and then by the remainders'
\* reciprocals (no product is formed, so no width is exceeded)
RECURSIVE RatLt(_, _, _, _)
RatLt(a1, a2, b1, b2) ==
    LET qa == a1 \div a2
        qb == b1 \div b2
        ra == a1 - qa * a2
        rb == b1 - qb * b2
    IN  IF qa # qb THEN qa < qb
        ELSE IF rb = 0 THEN FALSE
        ELSE IF ra = 0 THEN TRUE
        ELSE RatLt(b2, rb, a2, ra)

\* a < b; false when either is NaN
FLt(a, b) ==
    /\ ~IsNaN(a)
    /\ ~IsNaN(b)
    /\ RatLt(a[1], a[2], b[1], b[2])

FGt(a, b) == FLt(b, a)

FLe(a, b) == ~IsNaN(a) /\ ~IsNaN(b) /\ ~FLt(b, a)

FGe(a, b) == FLe(b, a)

\* floor of a finite float, as an integer
Floor(a) == a[1] \div a[2]

\* Python's a // m on floats (m > 0): the floor of the quotient, a float
FFloorDiv(a, m) ==
    IF IsNaN(a) \/ IsNaN(m) THEN NaN ELSE Flt(Floor(FDiv(a, m)))

\* Python's a % m on floats (m > 0): the result has the sign of m
FMod(a, m) == FSub(a, FMul(m, FFloorDiv(a, m)))

\* sum(xs) of Python: left to right from 0
RECURSIVE FSum(_)
FSum(xs) == IF xs = <<>> THEN Flt(0) ELSE FAdd(FSum(SubSeq(xs, 1, Len(xs) - 1)), xs[Len(xs)])

\* pandas Series.sum(): NaN entries are skipped (skipna=True), empty sum is 0
RECURSIVE PandasSum(_)
PandasSum(xs) ==
    IF xs = <<>> THEN Flt(0)
    ELSE LET rest == PandasSum(SubSeq(xs, 1, Len(xs) - 1))
             x    == xs[Len(xs)]
         IN  IF IsNaN(x) THEN rest ELSE FAdd(rest, x)

\* what a call returned or raised
\* keys: the keys of the returned value when it is a dict, else none
Returned(v) == [exc |-> "None", val |-> v, keys |-> {}]

ReturnedDict(v) == [exc |-> "None", val |-> v, keys |-> DOMAIN v]

Raised(e) == [exc |-> e, val |-> <<>>, keys |-> {}]

---------------------------------------------------------------------------
(* Core Tabler (2003) components: functions/Snow_drift.py *)

DT == 3600

\* the power with exponent 0 in place of 3.8: every hour counts the same
Pow38_exponent_zero(u) == IF IsNaN(u) THEN NaN ELSE Flt(1)

\* u ** 3.8 for whole wind speeds up to 10 m/s, rounded to the nearest
\* integer: 0, 1, 13.93, 65.02, 194.01, 452.99, 905.68, 1626.94, 2702.35,
\* 4227.87, 6309.57
Pow38(u) ==
    IF IsNaN(u) THEN NaN
    ELSE Flt(CASE u = Flt(0) -> 0
               [] u = Flt(1) -> 1
               [] u = Flt(2) -> 14
               [] u = Flt(3) -> 65
               [] u = Flt(4) -> 194
               [] u = Flt(5) -> 453
               [] u = Flt(6) -> 906
               [] u = Flt(7) -> 1627
               [] u = Flt(8) -> 2702
               [] u = Flt(9) -> 4228
               [] u = Flt(10) -> 6310)

\* one hour's term (u ** 3.8) * dt
HourTerm(u, dt) == FMul(Pow38(u), Flt(dt))

\* the mean over the hours in place of their sum (0/0 on no hours)
compute_Qupot_mean(hourly_wind_speeds, dt) ==
    FDiv(FDiv(FSum([i \in 1..Len(hourly_wind_speeds) |-> HourTerm(hourly_wind_speeds[i], dt)]),
              Flt(Len(hourly_wind_speeds))),
         Flt(233847))

compute_Qupot(hourly_wind_speeds, dt) ==
    FDiv(FSum([i \in 1..Len(hourly_wind_speeds) |-> HourTerm(hourly_wind_speeds[i], dt)]),
         Flt(233847))

\* int(x) of Python on a float: truncation toward zero; NaN raises ValueError
CanInt(x) == ~IsNaN(x)

Int_(x) == IF x[1] >= 0 THEN x[1] \div x[2] ELSE -((-x[1]) \div x[2])

\* sector_float without the half-sector offset: sectors start at their
\* nominal bearing instead of being centred on it
sector_float_no_offset(direction) ==
    FFloorDiv(FMod(direction, Flt(360)), Rat(225, 10))

\* sector_float with the half-sector offset taken off in place of added
sector_float_offset_back(direction) ==
    FFloorDiv(FMod(FSub(direction, Rat(1125, 100)), Flt(360)), Rat(225, 10))

\* the float inside int(...) of sector_index
sector_float(direction) ==
    FFloorDiv(FMod(FAdd(direction, Rat(1125, 100)), Flt(360)), Rat(225, 10))

\* sector_index raises ValueError exactly when int() is given NaN
sector_index_raises(direction) == ~CanInt(sector_float(direction))

\* the index sector_index returns (0-based, as in the source) when it returns
sector_index(direction) == Int_(sector_float(direction))

\* the zip loop of compute_sector_transport over hours i..n, from sectors
\* (sectors[idx] of the source is sectors[idx + 1] here: sequences are 1-based)
RECURSIVE sector_loop(_, _, _, _, _, _)
sector_loop(sectors, hourly_wind_speeds, hourly_wind_dirs, dt, i, n) ==
    IF i > n THEN sectors
    ELSE LET idx == sector_index(hourly_wind_dirs[i])
             add == FDiv(HourTerm(hourly_wind_speeds[i], dt), Flt(233847))
         IN  sector_loop([sectors EXCEPT ![idx + 1] = FAdd(@, add)],
                         hourly_wind_speeds, hourly_wind_dirs, dt, i + 1, n)

\* zip(a, b) stops at the shorter of the two sequences
ZipLen(a, b) == IF Len(a) < Len(b) THEN Len(a) ELSE Len(b)

\* compute_sector_transport raises (ValueError out of sector_index) when a
\* direction that zip reaches is NaN
compute_sector_transport_raises(hourly_wind_speeds, hourly_wind_dirs) ==
    \E i \in 1..ZipLen(hourly_wind_speeds, hourly_wind_dirs) :
        sector_index_raises(hourly_wind_dirs[i])

\* compute_sector_transport with the loop started one hour late
compute_sector_transport_skip_first(hourly_wind_speeds, hourly_wind_dirs, dt) ==
    sector_loop([k \in 1..16 |-> Flt(0)], hourly_wind_speeds, hourly_wind_dirs, dt,
                2, ZipLen(hourly_wind_speeds, hourly_wind_dirs))

compute_sector_transport(hourly_wind_speeds, hourly_wind_dirs, dt) ==
    sector_loop([k \in 1..16 |-> Flt(0)], hourly_wind_speeds, hourly_wind_dirs, dt,
                1, ZipLen(hourly_wind_speeds, hourly_wind_dirs))

\* the factor with the power added in place of subtracted
SatFactor_plus(e) ==
    CASE e = Flt(0) -> Flt(2)
      [] e = Flt(1) -> Rat(57, 50)
      [] e = Flt(10) -> Rat(345716132, 345716131)
      [] e = Flt(20) -> Flt(1)
      [] e = Flt(21) -> Flt(1)

\* 1 - 0.14 ** e as binary64 evaluates it, for the ratios e = F / T of the
\* model: 0.0, 0.86, 0.9999999971074535 (within 1e-17 of the fraction
\* below), and exactly 1.0 from e = 20 on, where 0.14 ** e = 8.4e-18 is less
\* than half the gap between 1.0 and the float below it
SatFactor(e) ==
    CASE e = Flt(0) -> Flt(0)
      [] e = Flt(1) -> Rat(43, 50)
      [] e = Flt(10) -> Rat(345716130, 345716131)
      [] e = Flt(20) -> Flt(1)
      [] e = Flt(21) -> Flt(1)

\* q * (1 - 0.14 ** e): NaN, 0 and q * 1.0 are computed; any other value is
\* kept as the product <<q, f>> of q and the factor f, flattened to four
\* integers (the product does not fit the integers of the model)
FSat(q, e) ==
    IF IsNaN(q) \/ IsNaN(e) THEN NaN
    ELSE LET f == SatFactor(e)
         IN  IF q = Flt(0) \/ f = Flt(0) THEN Flt(0)
             ELSE IF f = Flt(1) THEN q
             ELSE <<q[1], q[2], f[1], f[2]>>

\* the regime test with >= in place of >
snowfall_controlled_ge(Qupot, Qspot) == FGe(Qupot, Qspot)

\* the regime test the wrong way round
snowfall_controlled_swapped(Qupot, Qspot) == FLt(Qupot, Qspot)

\* "Qupot > Qspot" of compute_snow_transport
snowfall_controlled(Qupot, Qspot) == FGt(Qupot, Qspot)

\* compute_snow_transport from its second statement on, Qupot being known
tabler_estimate(Qupot, T, F, theta, Swe) ==
    LET Qspot == FMul(FMul(Rat(1, 2), T), Swe)
        Srwe  == FMul(theta, Swe)
        snow  == snowfall_controlled(Qupot, Qspot)
        Qinf  == IF snow THEN FMul(FMul(Rat(1, 2), T), Srwe) ELSE Qupot
        control == IF snow THEN "Snowfall controlled" ELSE "Wind controlled"
        Qt    == FSat(Qinf, FDiv(F, T))
    IN  [Qupot |-> Qupot, Qspot |-> Qspot, Srwe |-> Srwe,
         Qinf |-> Qinf, Qt |-> Qt, Control |-> control]

compute_snow_transport(T, F, theta, Swe, hourly_wind_speeds, dt) ==
    tabler_estimate(compute_Qupot(hourly_wind_speeds, dt), T, F, theta, Swe)

\* the sector labels of plot_rose, in the order of the 16 values
directions ==
    <<"N", "NNE", "NE", "ENE", "E", "ESE", "SE", "SSE",
      "S", "SSW", "SW", "WSW", "W", "WNW", "NW", "NNW">>

---------------------------------------------------------------------------
(* The copy of the Tabler components in Pages/Snowdrift.py *)

\* compute_Qupot of Pages/Snowdrift.py: the sum is returned without being
\* bound to a name first
Pages_compute_Qupot(hourly_wind_speeds, dt) ==
    FDiv(FSum([i \in 1..Len(hourly_wind_speeds) |-> FMul(Pow38(hourly_wind_speeds[i]), Flt(dt))]),
         Flt(233847))

\* sector_index of Pages/Snowdrift.py, and when its int() raises ValueError
Pages_sector_float(direction) ==
    FFloorDiv(FMod(FAdd(direction, Rat(1125, 100)), Flt(360)), Rat(225, 10))

Pages_sector_index_raises(direction) == ~CanInt(Pages_sector_float(direction))

Pages_sector_index(direction) == Int_(Pages_sector_float(direction))

\* the zip loop of compute_sector_transport of Pages/Snowdrift.py
RECURSIVE Pages_sector_loop(_, _, _, _, _, _)
Pages_sector_loop(sectors, hourly_wind_speeds, hourly_wind_dirs, dt, i, n) ==
    IF i > n THEN sectors
    ELSE LET idx == Pages_sector_index(hourly_wind_dirs[i])
             add == FDiv(FMul(Pow38(hourly_wind_speeds[i]), Flt(dt)), Flt(233847))
         IN  Pages_sector_loop([sectors EXCEPT ![idx + 1] = FAdd(@, add)],
                               hourly_wind_speeds, hourly_wind_dirs, dt, i + 1, n)

Pages_compute_sector_transport_raises(hourly_wind_speeds, hourly_wind_dirs) ==
    \E i \in 1..ZipLen(hourly_wind_speeds, hourly_wind_dirs) :
        Pages_sector_index_raises(hourly_wind_dirs[i])

Pages_compute_sector_transport(hourly_wind_speeds, hourly_wind_dirs, dt) ==
    Pages_sector_loop([k \in 1..16 |-> Flt(0)], hourly_wind_speeds, hourly_wind_dirs, dt,
                      1, ZipLen(hourly_wind_speeds, hourly_wind_dirs))

\* compute_snow_transport of Pages/Snowdrift.py: the same arithmetic, but
\* what it returns is Qt alone
Pages_compute_snow_transport(T, F, theta, Swe, hourly_wind_speeds, dt) ==
    LET Qupot == Pages_compute_Qupot(hourly_wind_speeds, dt)
        Qspot == FMul(FMul(Rat(1, 2), T), Swe)
        Srwe  == FMul(theta, Swe)
        Qinf  == IF FGt(Qupot, Qspot) THEN FMul(FMul(Rat(1, 2), T), Srwe) ELSE Qupot
        Qt    == FSat(Qinf, FDiv(F, T))
    IN  Qt

---------------------------------------------------------------------------
(* compute_fence_height *)

\* a string is a sequence of one-character strings;
\* str.lower() on one character of the model's alphabet
LowerChar(c) ==
    CASE c = "W" -> "w" [] c = "Y" -> "y" [] c = "O" -> "o" [] c = "M" -> "m"
      [] c = "I" -> "i" [] c = "N" -> "n" [] c = "G" -> "g" [] c = "S" -> "s"
      [] c = "L" -> "l" [] c = "A" -> "a" [] c = "T" -> "t" [] c = "D" -> "d"
      [] c = "R" -> "r" [] c = "E" -> "e"
      [] OTHER -> c

Lower(s) == [i \in 1..Len(s) |-> LowerChar(s[i])]

Str_wyoming == <<"w", "y", "o", "m", "i", "n", "g">>

Str_slat_hyphen == <<"s", "l", "a", "t", "-", "a", "n", "d", "-", "w", "i", "r", "e">>

Str_slat_space == <<"s", "l", "a", "t", " ", "a", "n", "d", " ", "w", "i", "r", "e">>

Str_solid == <<"s", "o", "l", "i", "d">>

\* the if/elif chain on fence_type as given, without lower()
fence_factor_case_sensitive(fence_type) ==
    IF fence_type = Str_wyoming THEN Rat(85, 10)
    ELSE IF fence_type \in {Str_slat_hyphen, Str_slat_space} THEN Rat(77, 10)
    ELSE IF fence_type = Str_solid THEN Rat(29, 10)
    ELSE NaN

\* the factors of the Wyoming and the solid fence exchanged
fence_factor_exchanged(fence_type) ==
    LET ft == Lower(fence_type)
    IN  IF ft = Str_wyoming THEN Rat(29, 10)
        ELSE IF ft \in {Str_slat_hyphen, Str_slat_space} THEN Rat(77, 10)
        ELSE IF ft = Str_solid THEN Rat(85, 10)
        ELSE NaN

\* the branch of the if/elif chain taken: the factor, or NaN for the else
\* branch, which raises
fence_factor(fence_type) ==
    LET ft == Lower(fence_type)
    IN  IF ft = Str_wyoming THEN Rat(85, 10)
        ELSE IF ft \in {Str_slat_hyphen, Str_slat_space} THEN Rat(77, 10)
        ELSE IF ft = Str_solid THEN Rat(29, 10)
        ELSE NaN

compute_fence_height_raises(Qt, fence_type) == IsNaN(fence_factor(fence_type))

\* x ** (1 / 2.2) for the quotients x = Qt / 1000 / factor of the model:
\* 0 and 1 are exact, the others are rounded to six decimals
Root22(x) ==
    IF IsNaN(x) THEN NaN
    ELSE CASE x = Flt(0) -> Flt(0)
           [] x = Flt(1) -> Flt(1)
           [] x = Rat(2, 17) -> Rat(378039, 1000000)
           [] x = Rat(10, 77) -> Rat(395412, 1000000)
           [] x = Rat(29, 85) -> Rat(613363, 1000000)
           [] x = Rat(10, 29) -> Rat(616338, 1000000)
           [] x = Rat(29, 77) -> Rat(641550, 1000000)
           [] x = Rat(77, 85) -> Rat(956064, 1000000)
           [] x = Rat(85, 77) -> Rat(1045955, 1000000)
           [] x = Rat(77, 29) -> Rat(1558725, 1000000)
           [] x = Rat(85, 29) -> Rat(1630355, 1000000)

compute_fence_height(Qt, fence_type) ==
    LET Qt_tonnes == FDiv(Qt, Flt(1000))
    IN  Root22(FDiv(Qt_tonnes, fence_factor(fence_type)))

---------------------------------------------------------------------------
(* Data loading helpers *)

\* a pandas Timestamp: <<year, month, day, hour, minute, second>>
Ts(y, mo, d, h, mi, s) == <<y, mo, d, h, mi, s>>

\* a < b on timestamps, from field i on
RECURSIVE TsLtFrom(_, _, _)
TsLtFrom(a, b, i) ==
    IF i > 6 THEN FALSE
    ELSE IF a[i] # b[i] THEN a[i] < b[i]
    ELSE TsLtFrom(a, b, i + 1)

TsLe(a, b) == ~TsLtFrom(b, a, 1)

\* the days of month mo of year y
DaysIn(y, mo) ==
    IF mo = 2 THEN (IF y % 4 = 0 /\ (y % 100 # 0 \/ y % 400 = 0) THEN 29 ELSE 28)
    ELSE IF mo \in {4, 6, 9, 11} THEN 30 ELSE 31

\* the season label with July counted to the season before
season_of_after_july(dt) == IF dt[2] > 7 THEN dt[1] ELSE dt[1] - 1

\* the lambda of _load_meteo_csv that labels a row's season
season_of(dt) == IF dt[2] >= 7 THEN dt[1] ELSE dt[1] - 1

\* the CSV row as read, and the dataframe row with its season column
CsvRow(time, temperature, precipitation, wind_speed, wind_direction) ==
    [time |-> time, temperature |-> temperature, precipitation |-> precipitation,
     wind_speed |-> wind_speed, wind_direction |-> wind_direction]

\* _load_meteo_csv raises ValueError when the file has no 'time' column
load_meteo_csv_raises(file) == ~file.has_time

load_meteo_csv(file) ==
    [i \in 1..Len(file.rows) |->
        [time |-> file.rows[i].time,
         temperature |-> file.rows[i].temperature,
         precipitation |-> file.rows[i].precipitation,
         wind_speed |-> file.rows[i].wind_speed,
         wind_direction |-> file.rows[i].wind_direction,
         season |-> season_of(file.rows[i].time)]]

in_range(t, start_date, end_date) == TsLe(start_date, t) /\ TsLe(t, end_date)

RECURSIVE filter_range(_, _, _)
filter_range(df, start_date, end_date) ==
    IF df = <<>> THEN <<>>
    ELSE LET head == filter_range(SubSeq(df, 1, Len(df) - 1), start_date, end_date)
             r    == df[Len(df)]
         IN  IF in_range(r.time, start_date, end_date) THEN Append(head, r) ELSE head

\* a file of the data directory: whether its name matches _COORD_FILE_REGEX,
\* the coordinates in its name, whether its header has a 'time' column, its rows
DataFile(name_ok, flat, flon, has_time, rows) ==
    [name_ok |-> name_ok, flat |-> flat, flon |-> flon, has_time |-> has_time, rows |-> rows]

file_dist(f, lat, lon) == Abs(f.flat - lat) + Abs(f.flon - lon)

\* _resolve_csv_path that gives up when the closest file is more than one
\* degree away
resolve_csv_path_nearby(lat, lon, dir) ==
    LET cand == {i \in 1..Len(dir) : dir[i].name_ok /\ file_dist(dir[i], lat, lon) <= 1}
    IN  IF cand = {} THEN 0
        ELSE CHOOSE i \in cand :
                \A j \in cand : \/ file_dist(dir[i], lat, lon) < file_dist(dir[j], lat, lon)
                                \/ (file_dist(dir[i], lat, lon) = file_dist(dir[j], lat, lon) /\ i <= j)

\* _resolve_csv_path over the directory listing dir (a sequence, in glob
\* order): the index of the candidate the stable sort puts first, 0 for None
resolve_csv_path(lat, lon, dir) ==
    LET cand == {i \in 1..Len(dir) : dir[i].name_ok}
    IN  IF cand = {} THEN 0
        ELSE CHOOSE i \in cand :
                \A j \in cand : \/ file_dist(dir[i], lat, lon) < file_dist(dir[j], lat, lon)
                                \/ (file_dist(dir[i], lat, lon) = file_dist(dir[j], lat, lon) /\ i <= j)

---------------------------------------------------------------------------
(* Public API: calculate_snow_drift *)

\* the gate with <= in place of <
Swe_hourly_le(row) == IF FLe(row.temperature, Flt(1)) THEN row.precipitation ELSE Flt(0)

\* the lambda that fills column Swe_hourly: precipitation when temp < 1, else 0
Swe_hourly(row) == IF FLt(row.temperature, Flt(1)) THEN row.precipitation ELSE Flt(0)

Swe_total_of(df) == PandasSum([i \in 1..Len(df) |-> Swe_hourly(df[i])])

wind_speeds_of(df) == [i \in 1..Len(df) |-> df[i].wind_speed]

\* the labels df.groupby('season') iterates over, and the rows of a label
seasons_of(df) == {df[i].season : i \in 1..Len(df)}

\* the labels of a groupby in the order it yields them: ascending
RECURSIVE sorted_labels(_)
sorted_labels(S) ==
    IF S = {} THEN <<>>
    ELSE LET m == CHOOSE x \in S : \A y \in S : x <= y
         IN  <<m>> \o sorted_labels(S \ {m})

RECURSIVE group_of(_, _)
group_of(df, s) ==
    IF df = <<>> THEN <<>>
    ELSE LET head == group_of(SubSeq(df, 1, Len(df) - 1), s)
             r    == df[Len(df)]
         IN  IF r.season = s THEN Append(head, r) ELSE head

\* group.copy() with its added column Swe_hourly
group_with_swe(group) ==
    [i \in 1..Len(group) |->
        [time |-> group[i].time,
         temperature |-> group[i].temperature,
         precipitation |-> group[i].precipitation,
         wind_speed |-> group[i].wind_speed,
         wind_direction |-> group[i].wind_direction,
         season |-> group[i].season,
         Swe_hourly |-> Swe_hourly(group[i])]]

wind_dirs_of(df) == [i \in 1..Len(df) |-> df[i].wind_direction]

\* compute_average_sector raises (ValueError out of sector_index) when some
\* row has a NaN direction
compute_average_sector_raises(df) ==
    \E s \in seasons_of(df) :
        compute_sector_transport_raises(wind_speeds_of(group_of(df, s)),
                                        wind_dirs_of(group_of(df, s)))

\* sectors_list when the loop over the groups ends
sectors_list_of(df) ==
    LET labels == sorted_labels(seasons_of(df))
    IN  [j \in 1..Len(labels) |->
            LET group == group_with_swe(group_of(df, labels[j]))
            IN  compute_sector_transport(wind_speeds_of(group), wind_dirs_of(group), DT)]

\* the sum over the seasons in place of their mean
np_mean_axis0_sum(sectors_list) ==
    IF sectors_list = <<>> THEN NaN
    ELSE CHOOSE mean \in {[k \in 1..16 |-> FSum([j \in 1..Len(arrays) |-> arrays[j][k]])] :
                            arrays \in {sectors_list}} : TRUE

\* np.mean(sectors_list, axis=0): of no arrays it is the scalar NaN (the
\* arrays are bound once, so that they are evaluated once)
np_mean_axis0(sectors_list) ==
    IF sectors_list = <<>> THEN NaN
    ELSE CHOOSE mean \in {[k \in 1..16 |->
                                FDiv(FSum([j \in 1..Len(arrays) |-> arrays[j][k]]),
                                     Flt(Len(arrays)))] :
                            arrays \in {sectors_list}} : TRUE

\* compute_average_sector without its early return
no_sectors_never(sectors_list) == FALSE

\* "not sectors_list"
no_sectors(sectors_list) == sectors_list = <<>>

compute_average_sector(df) ==
    LET sectors_list == sectors_list_of(df)
    IN  IF no_sectors(sectors_list) THEN [k \in 1..16 |-> Flt(0)]
        ELSE np_mean_axis0(sectors_list)

\* Tabler parameters of calculate_snow_drift
Tabler_T == 3000

Tabler_F == 30000

Tabler_theta == Rat(1, 2)

\* calculate_snow_drift without its early return
period_is_empty_never(df_period) == FALSE

\* df_period.empty
period_is_empty(df_period) == df_period = <<>>

\* the call's outcome: what it returns or raises, the functions it invoked
\* in order, and its local variables when it returns (<<>> when not bound)
Outcome(r, t, l) == [result |-> r, trace |-> t, locals |-> l]

calculate_snow_drift(lat, lon, start_date, end_date, dir) ==
    LET k == resolve_csv_path(lat, lon, dir)
    IN  IF k = 0 THEN Outcome(Raised("FileNotFoundError"), <<"_resolve_csv_path">>, <<>>)
        ELSE IF load_meteo_csv_raises(dir[k])
        THEN Outcome(Raised("ValueError"), <<"_resolve_csv_path", "_load_meteo_csv">>, <<>>)
        ELSE LET df        == load_meteo_csv(dir[k])
                 df_period == filter_range(df, start_date, end_date)
             IN  IF period_is_empty(df_period)
                 THEN Outcome(Returned(NaN),
                              <<"_resolve_csv_path", "_load_meteo_csv", "_filter_range">>,
                              [df_period |-> df_period])
                 ELSE LET Swe_total   == Swe_total_of(df_period)
                          wind_speeds == wind_speeds_of(df_period)
                          res == compute_snow_transport(Flt(Tabler_T), Flt(Tabler_F), Tabler_theta,
                                                        Swe_total, wind_speeds, DT)
                      IN  Outcome(Returned(res.Qt),
                                  <<"_resolve_csv_path", "_load_meteo_csv", "_filter_range",
                                    "compute_snow_transport", "compute_Qupot">>,
                                  [df_period |-> df_period, Swe_total |-> Swe_total,
                                   wind_speeds |-> wind_speeds, res |-> res])

---------------------------------------------------------------------------
(* _filter_range and the dataframe objects *)

\* dataframes are objects: the caller's df is object 1; .copy() without
\* effect hands the caller's own object back
copy_object_same(source) == source

\* df[...].copy(): a new object
copy_object(source) == source + 1

\* df_period["Swe_hourly"] = ...: the column is added to object o in place
assign_Swe_hourly(objects, o) == [objects EXCEPT ![o] = group_with_swe(@)]

\* _filter_range(df, start_date, end_date), followed by the column addition
\* of its caller: the objects after the call and after the addition
filter_range_objects(df, start_date, end_date) ==
    LET source   == 1
        returned == copy_object(source)
        objects  == [o \in {source, returned} |->
                        IF o = returned THEN filter_range(df, start_date, end_date) ELSE df]
    IN  Outcome(Returned(objects[returned]), <<>>,
                [source |-> source, returned |-> returned,
                 objects |-> assign_Swe_hourly(objects, returned)])

---------------------------------------------------------------------------
(* Public API: plot_wind_rose *)

\* a figure: the bars and tick labels of a rose, or a text on empty axes
\* (the title's number formatting is not modelled: overall_tonnes is the
\* number the title shows)
Figure(kind, text, bars, labels, overall_tonnes) ==
    [kind |-> kind, text |-> text, bars |-> bars, labels |-> labels,
     overall_tonnes |-> overall_tonnes]

\* a float that FSat keeps as a product q * f, as the pair <<q, f>>
QtParts(x) == IF Len(x) = 4 THEN <<<<x[1], x[2]>>, <<x[3], x[4]>>>> ELSE <<x, Flt(1)>>

\* the product q * f as FSat keeps it
QtOf(q, f) ==
    IF IsNaN(q) \/ IsNaN(f) THEN NaN
    ELSE IF q = Flt(0) \/ f = Flt(0) THEN Flt(0)
    ELSE IF f = Flt(1) THEN q
    ELSE <<q[1], q[2], f[1], f[2]>>

\* x / c for a float x that may be such a product
QtDiv(x, c) == IF IsNaN(x) THEN NaN ELSE QtOf(FDiv(QtParts(x)[1], c), QtParts(x)[2])

\* np.nanmean of Qt values that share the factor f of F / T = 10 (or are 0):
\* NaN entries are skipped; of no entry but NaN it is NaN
nanmean(qt_vals) ==
    LET kept == SelectSeq(qt_vals, LAMBDA v : ~IsNaN(v))
        f    == SatFactor(FDiv(Flt(Tabler_F), Flt(Tabler_T)))
    IN  IF kept = <<>> THEN NaN
        ELSE QtOf(FDiv(FSum([i \in 1..Len(kept) |-> QtParts(kept[i])[1]]), Flt(Len(kept))), f)

plot_rose(avg_sector_values, overall_avg) ==
    CHOOSE fig \in {Figure("rose", "Average directional distribution of snow transport",
                           [k \in 1..16 |-> FDiv(values[k], Flt(1000))],
                           directions, QtDiv(overall_avg, Flt(1000))) :
                        values \in {avg_sector_values}} : TRUE

\* the mask on the season column
season_mask(df, start_year, end_year) ==
    SelectSeq(df, LAMBDA r : r.season >= start_year /\ r.season <= end_year)

\* the first instant of season s
season_start_date(s) == Ts(s, 7, 1, 0, 0, 0)

\* the end of season s without its hour, minute and second: 30 June, 00:00
season_end_date_midnight(s) == Ts(s + 1, 6, 30, 0, 0, 0)

\* the last second of season s
season_end_date(s) == Ts(s + 1, 6, 30, 23, 59, 59)

\* one pass of the loop over the seasons: Qt of season s
season_Qt(df_sel, s) ==
    LET df_season   == filter_range(df_sel, season_start_date(s), season_end_date(s))
        Swe_total   == Swe_total_of(df_season)
        wind_speeds == wind_speeds_of(df_season)
    IN  compute_snow_transport(Flt(Tabler_T), Flt(Tabler_F), Tabler_theta,
                               Swe_total, wind_speeds, DT).Qt

\* plot_wind_rose from the selection df_sel on
plot_wind_rose_selected(df_sel) ==
    IF df_sel = <<>>
    THEN Outcome(Returned(Figure("text", "No data in selected year range", <<>>, <<>>, NaN)),
                 <<"_resolve_csv_path", "_load_meteo_csv">>,
                 [df_sel |-> df_sel])
    ELSE LET seasons == sorted_labels(seasons_of(df_sel))
             qt_vals == [j \in 1..Len(seasons) |-> season_Qt(df_sel, seasons[j])]
             overall_avg == IF qt_vals # <<>> THEN nanmean(qt_vals) ELSE Flt(0)
             called == <<"_resolve_csv_path", "_load_meteo_csv", "_filter_range",
                         "compute_snow_transport", "compute_average_sector">>
             bound == [df_sel |-> df_sel, seasons |-> seasons,
                       qt_vals |-> qt_vals, overall_avg |-> overall_avg]
         IN  IF compute_average_sector_raises(df_sel)
             THEN Outcome(Raised("ValueError"), called, bound)
             ELSE Outcome(Returned(plot_rose(compute_average_sector(df_sel), overall_avg)),
                          Append(called, "plot_rose"), bound)

plot_wind_rose(lat, lon, start_year, end_year, dir) ==
    LET k == resolve_csv_path(lat, lon, dir)
    IN  IF k = 0 THEN Outcome(Raised("FileNotFoundError"), <<"_resolve_csv_path">>, <<>>)
        ELSE IF load_meteo_csv_raises(dir[k])
        THEN Outcome(Raised("ValueError"), <<"_resolve_csv_path", "_load_meteo_csv">>, <<>>)
        ELSE CHOOSE out \in {plot_wind_rose_selected(df_sel) :
                                df_sel \in {season_mask(load_meteo_csv(dir[k]),
                                                        start_year, end_year)}} : TRUE

---------------------------------------------------------------------------
(* plot_wind_rose of Pages/Snowdrift.py *)

\* download_era5_data for one year: of the hours the archive holds, those
\* whose year is the one asked for (the request and the time zone
\* conversion are not modelled: the archive's times are local times)
download_era5_data(archive, year) == SelectSeq(archive, LAMBDA r : r.time[1] = year)

\* pd.concat of the years' dataframes, from year y to end_year
RECURSIVE concat_years(_, _, _)
concat_years(archive, y, end_year) ==
    IF y > end_year THEN <<>>
    ELSE download_era5_data(archive, y) \o concat_years(archive, y + 1, end_year)

\* df.sort_values("time"): row r put in its place among the sorted rows
RECURSIVE insert_by_time(_, _)
insert_by_time(sorted, r) ==
    IF sorted = <<>> THEN <<r>>
    ELSE IF TsLe(sorted[Len(sorted)].time, r.time) THEN Append(sorted, r)
    ELSE Append(insert_by_time(SubSeq(sorted, 1, Len(sorted) - 1), r), sorted[Len(sorted)])

RECURSIVE sort_values_time(_)
sort_values_time(df) ==
    IF df = <<>> THEN <<>>
    ELSE insert_by_time(sort_values_time(SubSeq(df, 1, Len(df) - 1)), df[Len(df)])

\* plot_wind_rose from the sorted dataframe on
Pages_plot_wind_rose_sorted(df) ==
    IF df = <<>>   \* df.empty
    THEN Outcome(Returned(Figure("text", "No data in selected range", <<>>, <<>>, NaN)),
                 <<"download_era5_data">>, [df |-> df])
    ELSE LET ws   == [i \in 1..Len(df) |-> df[i].wind_speed]
             wdir == [i \in 1..Len(df) |-> df[i].wind_direction]
         IN  IF Pages_compute_sector_transport_raises(ws, wdir)
             THEN Outcome(Raised("ValueError"),
                          <<"download_era5_data", "compute_sector_transport">>, [df |-> df])
             ELSE LET sectors   == Pages_compute_sector_transport(ws, wdir, DT)
                      Swe_total == PandasSum([i \in 1..Len(df) |-> Swe_hourly(df[i])])
                      Qt == Pages_compute_snow_transport(Flt(Tabler_T), Flt(Tabler_F),
                                                         Tabler_theta, Swe_total, ws, DT)
                  IN  Outcome(Returned(Figure("rose", "Wind rose",
                                              [k \in 1..16 |-> FDiv(sectors[k], Flt(1000))],
                                              directions, QtDiv(Qt, Flt(1000)))),
                              <<"download_era5_data", "compute_sector_transport",
                                "compute_snow_transport">>,
                              [df |-> df, sectors |-> sectors, Swe_total |-> Swe_total,
                               Qt |-> Qt])

\* pd.concat raises ValueError when it is given no dataframe at all
Pages_plot_wind_rose(lat, lon, start_year, end_year, archive) ==
    IF start_year > end_year
    THEN Outcome(Raised("ValueError"), <<>>, <<>>)
    ELSE CHOOSE out \in {Pages_plot_wind_rose_sorted(df) :
                            df \in {sort_values_time(concat_years(archive, start_year,
                                                                   end_year))}} : TRUE

---------------------------------------------------------------------------
(* The snow drift section of Pages/Energy Map & Snow Drift Explorer.py *)

\* t + pd.Timedelta(seconds=1)
AddSecond(t) ==
    IF t[6] < 59 THEN Ts(t[1], t[2], t[3], t[4], t[5], t[6] + 1)
    ELSE IF t[5] < 59 THEN Ts(t[1], t[2], t[3], t[4], t[5] + 1, 0)
    ELSE IF t[4] < 23 THEN Ts(t[1], t[2], t[3], t[4] + 1, 0, 0)
    ELSE IF t[3] < DaysIn(t[1], t[2]) THEN Ts(t[1], t[2], t[3] + 1, 0, 0, 0)
    ELSE IF t[2] < 12 THEN Ts(t[1], t[2] + 1, 1, 0, 0, 0)
    ELSE Ts(t[1] + 1, 1, 1, 0, 0, 0)

\* t + pd.offsets.MonthEnd(0): the last day of t's month, at t's time of day
MonthEnd0(t) == Ts(t[1], t[2], DaysIn(t[1], t[2]), t[4], t[5], t[6])

\* .replace(hour=23, minute=59, second=59)
replace_end_of_day(t) == Ts(t[1], t[2], t[3], 23, 59, 59)

\* strftime("%Y-%m"), as the pair <<year, month>>
strftime_Ym(t) == <<t[1], t[2]>>

\* the while loop of calculate_monthly_snow_drift from current_start on:
\* monthly holds the rows so far, windows the [current_start, current_end]
\* that calculate_snow_drift was called on
RECURSIVE monthly_loop(_, _, _, _, _, _, _)
monthly_loop(monthly, windows, current_start, end_date, lat, lon, dir) ==
    IF ~TsLtFrom(current_start, end_date, 1)
    THEN Outcome(Returned(monthly), <<>>, [windows |-> windows])
    ELSE LET month_end   == replace_end_of_day(MonthEnd0(current_start))
             current_end == IF TsLtFrom(end_date, month_end, 1) THEN end_date ELSE month_end
         IN  \* drift is bound once here
             CHOOSE out \in
                {IF drift.result.exc # "None"
                 THEN Outcome(drift.result, <<>>, [windows |-> windows])
                 ELSE monthly_loop(Append(monthly, [month |-> strftime_Ym(current_start),
                                                    snow_drift_kgm |-> drift.result.val]),
                                   Append(windows, <<current_start, current_end>>),
                                   AddSecond(current_end), end_date, lat, lon, dir) :
                    drift \in {calculate_snow_drift(lat, lon, current_start, current_end, dir)}} :
                TRUE

calculate_monthly_snow_drift(lat, lon, start_date, end_date, dir) ==
    monthly_loop(<<>>, <<>>, start_date, end_date, lat, lon, dir)

---------------------------------------------------------------------------
(* Python values of the pages: None, strings, points *)

PyNone == [type |-> "NoneType"]

\* a str, as the sequence of its characters
PyStr(chars) == [type |-> "str", chars |-> chars]

\* the tuple (lat, lon)
PyPoint(lat, lon) == [type |-> "tuple", lat |-> lat, lon |-> lon]

\* bool(v) for these values
Truthy(v) ==
    IF v.type = "NoneType" THEN FALSE
    ELSE IF v.type = "str" THEN v.chars # <<>>
    ELSE TRUE

---------------------------------------------------------------------------
(* normalize_area_name, in Pages/Map.py and in the Energy Map page *)

\* a test of the prefix alone, whatever the length
IsN0Code_prefix(chars) == Len(chars) >= 2 /\ chars[1] = "N" /\ chars[2] = "0"

\* name.startswith("N0") and len(name) == 3
IsN0Code(chars) == Len(chars) = 3 /\ chars[1] = "N" /\ chars[2] = "0"

\* "NO" + name[-1]
NOCode(chars) == <<"N", "O", chars[Len(chars)]>>

\* normalize_area_name of Pages/Map.py
Map_normalize_area_name(name) ==
    IF name.type = "str" /\ IsN0Code(name.chars) THEN PyStr(NOCode(name.chars))
    ELSE name

\* normalize_area_name of the Energy Map page: the name it goes on with,
\* and returns in the end, is the one without spaces
EnergyMap_normalize_area_name(name) ==
    IF name.type = "str"
    THEN LET stripped == SelectSeq(name.chars, LAMBDA c : c # " ")   \* name.replace(" ", "")
         IN  IF IsN0Code(stripped) THEN PyStr(NOCode(stripped)) ELSE PyStr(stripped)
    ELSE name

---------------------------------------------------------------------------
(* The session and the script runs *)

\* st.session_state holds for each key a value, or nothing (Absent)
Absent == [type |-> "absent"]

SessionKeys == {"chosen_area", "clicked_point", "selected_area", "area_means"}

\* k in st.session_state
HasKey(state, k) == state[k] # Absent

\* st.session_state[k] = v
SetKey(state, k, v) == [state EXCEPT ![k] = v]

\* if k not in st.session_state: st.session_state[k] = v
SetDefault(state, k, v) == IF HasKey(state, k) THEN state ELSE SetKey(state, k, v)

\* a script run that has raised nothing and rendered nothing yet
\* entry: the script; given: the widget values of the run; exc: the
\* exception that ended it; stopped: st.stop(); rerun: st.rerun();
\* rendered: what it drew, in order; reruns: st.rerun() calls since the
\* user last acted
NoScript ==
    [entry |-> "none", given |-> <<>>, exc |-> "None", stopped |-> FALSE, rerun |-> FALSE,
     rendered |-> <<>>, before |-> <<>>, reruns |-> 0, annual_results |-> <<>>,
     monthly_results |-> <<>>, choice |-> "", page_file |-> "", opened |-> "",
     initialised_at_dispatch |-> FALSE]

\* a browser session that has run no script
NoSession ==
    /\ session = [k \in SessionKeys |-> Absent]
    /\ script = NoScript

---------------------------------------------------------------------------
(* The GeoJSON features and the click on the map *)

\* a feature of the GeoJSON file: properties["ElSpotOmr"], the geometry's
\* type, and the points of the map its geometry contains
Feature(raw_name, geom_type, points) ==
    [raw_name |-> raw_name, geom_type |-> geom_type, points |-> points]

\* the loop over the features: the index of the first feature from index k
\* on that is a Polygon or MultiPolygon containing the point, 0 when the
\* loop ends without a break
RECURSIVE clicked_feature_from(_, _, _)
clicked_feature_from(features, point, k) ==
    IF k > Len(features) THEN 0
    ELSE IF features[k].geom_type \in {"Polygon", "MultiPolygon"} /\ point \in features[k].points
    THEN k
    ELSE clicked_feature_from(features, point, k + 1)

\* clicked_area of the Energy Map page's click handler: ElSpotOmrNorm of the
\* feature is the name as the page's normalize_area_name injected it
EnergyMap_clicked_area(features, point) ==
    LET k == clicked_feature_from(features, point, 1)
    IN  IF k = 0 THEN PyNone ELSE EnergyMap_normalize_area_name(features[k].raw_name)

\* clicked_area of the click handler of Pages/Map.py, likewise
Map_clicked_area(features, point) ==
    LET k == clicked_feature_from(features, point, 1)
    IN  IF k = 0 THEN PyNone ELSE Map_normalize_area_name(features[k].raw_name)

---------------------------------------------------------------------------
(* The script Pages/Energy Map & Snow Drift Explorer.py *)

\* the names functions/Snow_drift.py defines
Snow_drift_names ==
    {"compute_Qupot", "sector_index", "compute_sector_transport", "compute_snow_transport",
     "compute_average_sector", "plot_rose", "compute_fence_height", "_COORD_FILE_REGEX",
     "_resolve_csv_path", "_load_meteo_csv", "_filter_range", "calculate_snow_drift",
     "plot_wind_rose"}

\* from functions.Snow_drift import ...
EnergyMap_imports == {"calculate_snow_drift", "plot_wind_rose_plotly"}

\* the label f"{y}-{y+1}", as the pair <<y, y + 1>>
season_label(y) == <<y, y + 1>>

\* the loop over the years from y on; how is "done", "stop" (st.error and
\* st.stop() after FileNotFoundError) or the exception that escapes
RECURSIVE seasonal_loop(_, _, _, _, _, _, _)
seasonal_loop(y, end_year, annual_results, monthly_results, lat, lon, dir) ==
    IF y > end_year
    THEN [how |-> "done", annual_results |-> annual_results, monthly_results |-> monthly_results]
    ELSE CHOOSE out \in
            {IF drift.result.exc # "None"
             THEN [how |-> IF drift.result.exc = "FileNotFoundError" THEN "stop"
                           ELSE drift.result.exc,
                   annual_results |-> annual_results, monthly_results |-> monthly_results]
             ELSE IF drift_monthly.result.exc # "None"
             THEN [how |-> IF drift_monthly.result.exc = "FileNotFoundError" THEN "stop"
                           ELSE drift_monthly.result.exc,
                   annual_results |-> annual_results, monthly_results |-> monthly_results]
             ELSE seasonal_loop(y + 1, end_year,
                                Append(annual_results,
                                       [year |-> season_label(y),
                                        snow_drift_kgm |-> drift.result.val,
                                        window |-> <<season_start_date(y), season_end_date(y)>>]),
                                Append(monthly_results,
                                       [season |-> season_label(y),
                                        rows |-> drift_monthly.result.val]),
                                lat, lon, dir) :
                drift \in {calculate_snow_drift(lat, lon, season_start_date(y),
                                                season_end_date(y), dir)},
                drift_monthly \in {calculate_monthly_snow_drift(lat, lon, season_start_date(y),
                                                                season_end_date(y), dir)}} : TRUE

\* the snow drift section of the page, on the run so far
snow_drift_section(state, run, slider, dir) ==
    IF ~Truthy(state.clicked_point)
    THEN [run EXCEPT !.rendered = Append(@, "warning: no coordinates")]
    ELSE LET loop == seasonal_loop(slider[1], slider[2], <<>>, <<>>,
                                   state.clicked_point.lat, state.clicked_point.lon, dir)
         IN  IF loop.how = "stop"
             THEN [run EXCEPT !.rendered = Append(@, "error"), !.stopped = TRUE]
             ELSE IF loop.how # "done"
             THEN [run EXCEPT !.exc = loop.how]
             ELSE \* both charts, then st.pyplot_chart, which streamlit does not have
                  [run EXCEPT !.annual_results = loop.annual_results,
                              !.monthly_results = loop.monthly_results,
                              !.rendered = @ \o <<"annual chart", "monthly chart">>,
                              !.exc = "AttributeError"]

\* one run of the script: the session state and the run's record after it
EnergyMap_script(state, given, features) ==
    LET run == [NoScript EXCEPT !.entry = "EnergyMap", !.given = given, !.before = state]
    IN  IF ~(EnergyMap_imports \subseteq Snow_drift_names)
        THEN [session |-> state, script |-> [run EXCEPT !.exc = "ImportError"]]
        ELSE LET initialised == SetDefault(SetDefault(state, "clicked_point", PyNone),
                                           "selected_area", PyNone)
             IN  IF given.means_empty
                 THEN [session |-> initialised,
                       script |-> [run EXCEPT !.rendered = <<"warning: no data">>,
                                              !.stopped = TRUE]]
                 ELSE LET clicked ==
                            IF Truthy(given.last_clicked)
                            THEN SetKey(SetKey(initialised, "clicked_point", given.last_clicked),
                                        "selected_area",
                                        EnergyMap_clicked_area(features,
                                                               <<given.last_clicked.lat,
                                                                 given.last_clicked.lon>>))
                            ELSE initialised
                      IN  [session |-> clicked,
                           script |-> snow_drift_section(clicked,
                                                         [run EXCEPT !.rendered = <<"map", "means">>],
                                                         given.slider, given.dir)]

---------------------------------------------------------------------------
(* The script Pages/Map.py *)

\* the rerun asked for after every click, whatever area it hits
selected_area_changed_always(clicked_area, selected_area) == TRUE

\* clicked_area != st.session_state.selected_area
selected_area_changed(clicked_area, selected_area) == clicked_area # selected_area

\* one run of the script: the session state and the run's record after it
Map_script(state, given, features) ==
    LET run == [NoScript EXCEPT !.entry = "Map", !.given = given, !.before = state]
        initialised ==
            SetKey(SetDefault(SetDefault(SetDefault(state, "clicked_point", PyNone),
                                         "selected_area", PyNone),
                              "area_means", [type |-> "dict", empty |-> TRUE]),
                   "area_means", [type |-> "dict", empty |-> given.means_empty])
    IN  IF given.means_empty
        THEN [session |-> initialised,
              script |-> [run EXCEPT !.rendered = <<"warning: no data">>, !.stopped = TRUE]]
        ELSE IF Truthy(given.last_clicked)
        THEN LET pointed == SetKey(initialised, "clicked_point", given.last_clicked)
                 clicked_area == Map_clicked_area(features, <<given.last_clicked.lat,
                                                              given.last_clicked.lon>>)
             IN  IF selected_area_changed(clicked_area, pointed.selected_area)
                 THEN [session |-> SetKey(pointed, "selected_area", clicked_area),
                       script |-> [run EXCEPT !.rendered = <<"map">>, !.rerun = TRUE]]
                 ELSE [session |-> pointed,
                       script |-> [run EXCEPT !.rendered =
                                        IF Truthy(pointed.selected_area)
                                        THEN <<"map", "map with highlight", "means", "coordinates">>
                                        ELSE <<"map", "means", "coordinates">>]]
        ELSE [session |-> initialised,
              script |-> [run EXCEPT !.rendered =
                               IF Truthy(initialised.selected_area)
                               THEN <<"map", "map with highlight", "means", "coordinates">>
                               ELSE <<"map", "means", "coordinates">>]]

---------------------------------------------------------------------------
(* The script streamlit_app.py *)

\* page_groups: each group's entries as <<label, page>>, in order; the
\* emoji that starts a label is written as a word between colons
page_groups ==
    [Overview |-> << <<":house: Home", "Home">>,
                     <<":zap: Elhub Production Overview", "Elhub Production Overview">>,
                     <<":weather: Weather Data Explorer", "Weather Data Explorer">> >>,
     Analysis |-> << <<":chart: STL & Spectrogram Analysis", "STL and Spectrogram Analysis">>,
                     <<":mag: Outlier & Anomaly Detection", "Outlier and Anomali Detection">>,
                     <<":thermometer: SWC Meteorology & Energy", "SWC Meteorology and Energy">> >>,
     Mapping  |-> << <<":map: Energy Map & Snow Drift Explorer",
                       "Energy Map & Snow Drift Explorer">> >>,
     Forecasting |-> << <<":chart_down: Forecasting", "Forecasting">> >>]

\* list(page_groups[g].keys())
group_keys(g) == [k \in 1..Len(page_groups[g]) |-> page_groups[g][k][1]]

\* page_groups[g].get(choice): the page of the label, "" for None
group_get(g, choice) ==
    IF \E k \in 1..Len(page_groups[g]) : page_groups[g][k][1] = choice
    THEN page_groups[g][CHOOSE k \in 1..Len(page_groups[g]) : page_groups[g][k][1] = choice][2]
    ELSE ""

\* a or b or c or d on strings: the first that is not empty, else the last
Or4(a, b, c, d) == IF a # "" THEN a ELSE IF b # "" THEN b ELSE IF c # "" THEN c ELSE d

\* choice = overview_choice or analysis_choice or mapping_choice or forecast_choice
choice_of(given) == Or4(given.Overview, given.Analysis, given.Mapping, given.Forecasting)

\* the files of the Pages folder, without ".py"
PagesFolder ==
    {"Elhub", "Energy Map & Snow Drift Explorer", "Forecasting", "Map",
     "Meteorology and Energy production", "New A", "Outlier and Anomali Detection",
     "Page1", "Page2", "Page3", "Raw Data", "SWC Meteorology and Energy", "Snowdrift",
     "Weather Data Explorer", ":mag: Outlier and Anomali Detection"}

\* exec of a page's code: the exception it ends with when chosen_area is
\* not in the session ("None" otherwise): Raw Data.py indexes the session,
\* the outlier pages pass None on to get_city_from_area
exec_page(file, state) ==
    IF HasKey(state, "chosen_area") THEN "None"
    ELSE IF file = "Raw Data" THEN "KeyError"
    ELSE IF file \in {"Outlier and Anomali Detection", ":mag: Outlier and Anomali Detection"}
    THEN "ValueError"
    ELSE "None"

\* one run of the script: the session state and the run's record after it
App_script(state, given) ==
    LET choice    == choice_of(given)
        page_file == Or4(group_get("Overview", choice), group_get("Analysis", choice),
                         group_get("Mapping", choice), group_get("Forecasting", choice))
        run == [NoScript EXCEPT !.entry = "streamlit_app", !.given = given, !.before = state,
                                !.choice = choice, !.page_file = page_file,
                                !.rendered = <<"sidebar">>]
    IN  IF choice = "Home"
        THEN [session |-> SetDefault(state, "chosen_area", PyStr(<<"N", "O", "1">>)),
              script |-> [run EXCEPT !.rendered = Append(@, "welcome"),
                                     !.initialised_at_dispatch = HasKey(state, "chosen_area")]]
        ELSE LET dispatched == [run EXCEPT !.opened = choice,
                                           !.initialised_at_dispatch = HasKey(state, "chosen_area")]
             IN  IF choice \notin PagesFolder
                 THEN [session |-> state,
                       script |-> [dispatched EXCEPT !.exc = "FileNotFoundError"]]
                 ELSE IF exec_page(choice, state) # "None"
                 THEN [session |-> state,
                       script |-> [dispatched EXCEPT !.exc = exec_page(choice, state)]]
                 ELSE [session |-> SetDefault(state, "chosen_area", PyStr(<<"N", "O", "1">>)),
                       script |-> [dispatched EXCEPT !.rendered = Append(@, "page")]]

---------------------------------------------------------------------------
(* Inputs *)

SeqsUpTo(S, n) == UNION {[1..k -> S] : k \in 0..n}

\* hourly wind speeds (m/s), a missing value included
WindSpeeds == {NaN, Flt(0), Flt(1), Flt(3)}

\* wind directions (degrees) on a quarter-degree grid over [0, 360]
DirGrid == {Rat(k, 4) : k \in 0..(4 * 360)}

\* the directions the sequences passed to compute_sector_transport draw from
DirSamples == {NaN, Flt(45), Rat(34875, 100), Flt(360)}

SpeedSeqs == SeqsUpTo(WindSpeeds, MaxHours)

DirSeqs == SeqsUpTo(DirSamples, MaxHours)

\* T (m, positive), F as a multiple of T, theta in [0, 1]
TSamples == {Flt(2), Flt(3000)}

FMultiples == {Flt(0), Flt(1), Flt(10), Flt(20), Flt(21)}

ThetaSamples == {Flt(0), Rat(1, 2), Flt(1)}

\* snow water equivalents (mm, non-negative) tried with T and the speeds ws:
\* 0, 1 and the one that makes Qspot equal to Qupot
SweSamples(T, ws) ==
    LET Qupot == compute_Qupot(ws, DT)
    IN  {Flt(0), Flt(1)} \cup (IF IsNaN(Qupot) THEN {} ELSE {FDiv(FMul(Flt(2), Qupot), T)})

QtSamples == {NaN, Flt(0), Flt(1000), Flt(2900), Flt(7700), Flt(8500)}

FenceTypes ==
    { <<"W", "y", "o", "m", "i", "n", "g">>,
      <<"w", "y", "o", "m", "i", "n", "g">>,
      <<"W", "Y", "O", "M", "I", "N", "G">>,
      <<"w", "y", "o", "m", "i", "n", "g", " ">>,
      <<"S", "l", "a", "t", "-", "a", "n", "d", "-", "w", "i", "r", "e">>,
      <<"s", "l", "a", "t", " ", "a", "n", "d", " ", "w", "i", "r", "e">>,
      <<"S", "L", "A", "T", " ", "A", "N", "D", " ", "W", "I", "R", "E">>,
      <<"s", "l", "a", "t", "-", "a", "n", "d", " ", "w", "i", "r", "e">>,
      <<"s", "l", "a", "t", "_", "a", "n", "d", "_", "w", "i", "r", "e">>,
      <<"S", "o", "l", "i", "d">>,
      <<"s", "o", "l", "i", "d">>,
      <<"S", "O", "L", "I", "D">>,
      <<"s", "o", "l", "i", "d", "s">>,
      <<"w", "o", "o", "d">>,
      <<>> }

Years == FirstYear..(FirstYear + NumYears - 1)

\* the first and the last hour of every month of every year of the model
MonthEdgeTimes ==
    {Ts(y, mo, 1, 0, 0, 0) : y \in Years, mo \in 1..12}
        \cup {Ts(y, mo, DaysIn(y, mo), 23, 0, 0) : y \in Years, mo \in 1..12}

\* a row with ordinary weather at time t
PlainRow(t) == CsvRow(t, Flt(-5), Flt(1), Flt(2), Flt(45))

\* the requested [start_date, end_date]: the season of FirstYear, and January
\* of that season
DateRanges ==
    { <<Ts(FirstYear, 7, 1, 0, 0, 0), Ts(FirstYear + 1, 6, 30, 23, 59, 59)>>,
      <<Ts(FirstYear + 1, 1, 1, 0, 0, 0), Ts(FirstYear + 1, 1, 31, 23, 59, 59)>> }

\* before the season, on its first hour, on the first hour of its January
RowTimes ==
    { Ts(FirstYear, 6, 30, 23, 0, 0), Ts(FirstYear, 7, 1, 0, 0, 0), Ts(FirstYear + 1, 1, 1, 0, 0, 0) }

\* rows that differ in time, in temperature, or in precipitation and wind
RowSamples ==
    {CsvRow(t, Flt(-5), Flt(1), Flt(2), Flt(45)) : t \in RowTimes}
        \cup {CsvRow(Ts(FirstYear, 7, 1, 0, 0, 0), temp, Flt(1), Flt(2), Flt(45)) :
                temp \in {NaN, Flt(1), Flt(2)}}
        \cup {CsvRow(Ts(FirstYear, 7, 1, 0, 0, 0), Flt(-5), p, w, Flt(45)) :
                p \in {NaN, Flt(2)}, w \in {NaN, Flt(0), Flt(3)}}

Datasets == SeqsUpTo(RowSamples, MaxRows)

\* directory listings: empty; one file whose name does not match; one file
\* without a 'time' column; one matching file; a far file before a near one
DataDirs ==
    { <<>>,
      <<DataFile(FALSE, 60, 10, TRUE, <<>>)>>,
      <<DataFile(TRUE, 60, 10, FALSE, <<>>)>> }
        \cup {<<DataFile(TRUE, 60, 10, TRUE, rows)>> : rows \in Datasets}
        \cup {<<DataFile(TRUE, 70, 20, TRUE, <<>>), DataFile(TRUE, 60, 10, TRUE, rows)>> :
                rows \in SeqsUpTo(RowSamples, 1)}

LatLons == {<<60, 10>>, <<69, 19>>}

\* the files _load_meteo_csv is called on directly: two rows, each on the
\* first or last hour of some month, and one file without a 'time' column
LoadableFiles ==
    {DataFile(TRUE, 60, 10, TRUE, <<PlainRow(t1), PlainRow(t2)>>) :
        t1 \in MonthEdgeTimes, t2 \in MonthEdgeTimes}
        \cup {DataFile(TRUE, 60, 10, FALSE, <<>>)}

\* rows for compute_average_sector: the first hour of each season, wind of
\* 1 or 3 m/s from NE, from N or from nowhere (NaN), and one hour without a
\* wind speed
SectorRows ==
    {CsvRow(Ts(y, 7, 1, 0, 0, 0), Flt(-5), Flt(1), w, d) :
        y \in Years, w \in {Flt(1), Flt(3)}, d \in {Flt(45), Rat(34875, 100), NaN}}
        \cup {CsvRow(Ts(FirstYear, 7, 1, 0, 0, 0), Flt(-5), Flt(1), NaN, Flt(45))}

\* the dataframes compute_average_sector is called on, as _load_meteo_csv
\* returns them
SectorFrames ==
    {load_meteo_csv(DataFile(TRUE, 60, 10, TRUE, rows)) : rows \in SeqsUpTo(SectorRows, MaxRows)}

\* one day of hourly observations: wind of 10 m/s from 45 degrees, -5 C,
\* 1 mm of precipitation per hour, on 1 January of the season of FirstYear
DayRows ==
    [h \in 1..24 |->
        CsvRow(Ts(FirstYear + 1, 1, 1, h - 1, 0, 0), Flt(-5), Flt(1), Flt(10), Flt(45))]

DaySpeeds == [h \in 1..24 |-> DayRows[h].wind_speed]

DayDirs == [h \in 1..24 |-> DayRows[h].wind_direction]

\* the directory that holds the file of that day
DayDir == <<DataFile(TRUE, 60, 10, TRUE, DayRows)>>

\* the (speeds, directions) pairs compute_sector_transport is called on
SectorCalls == (SpeedSeqs \X DirSeqs) \cup {<<DaySpeeds, DayDirs>>}

\* rows for plot_wind_rose: the first hour of each season with wind from
\* NE, the last hour of the season before FirstYear, an hour without a wind
\* direction and an hour without a wind speed
RoseRows ==
    {CsvRow(Ts(y, 7, 1, 0, 0, 0), Flt(-5), Flt(1), Flt(3), Flt(45)) : y \in Years}
        \cup { CsvRow(Ts(FirstYear, 6, 30, 23, 0, 0), Flt(-5), Flt(1), Flt(1), Flt(360)),
               CsvRow(Ts(FirstYear, 7, 1, 0, 0, 0), Flt(-5), Flt(1), Flt(1), NaN),
               CsvRow(Ts(FirstYear, 7, 1, 0, 0, 0), Flt(2), Flt(1), NaN, Flt(45)) }

\* directory listings for plot_wind_rose: as DataDirs, with those rows
RoseDirs ==
    { <<>>,
      <<DataFile(FALSE, 60, 10, TRUE, <<>>)>>,
      <<DataFile(TRUE, 60, 10, FALSE, <<>>)>> }
        \cup {<<DataFile(TRUE, 60, 10, TRUE, rows)>> : rows \in SeqsUpTo(RoseRows, MaxRows)}
        \cup {<<DataFile(TRUE, 70, 20, TRUE, <<>>), DataFile(TRUE, 60, 10, TRUE, rows)>> :
                rows \in SeqsUpTo(RoseRows, MaxRows)}

\* the [start_year, end_year] plot_wind_rose is asked for: the season of
\* FirstYear alone, that season with the one before, and a later season
YearRanges ==
    {<<FirstYear, FirstYear>>, <<FirstYear - 1, FirstYear>>, <<FirstYear + NumYears, FirstYear + NumYears>>}

\* times around the ends of the season of FirstYear: its first second and
\* the second before, its last second and the second after, and the first
\* hour of its January
FilterTimes ==
    { Ts(FirstYear, 6, 30, 23, 59, 59), Ts(FirstYear, 7, 1, 0, 0, 0),
      Ts(FirstYear + 1, 1, 1, 0, 0, 0),
      Ts(FirstYear + 1, 6, 30, 23, 59, 59), Ts(FirstYear + 1, 7, 1, 0, 0, 0) }

\* the dataframes _filter_range is called on, as _load_meteo_csv returns
\* them (rows in any order)
FilterFrames ==
    {load_meteo_csv(DataFile(TRUE, 60, 10, TRUE, rows)) :
        rows \in SeqsUpTo({PlainRow(t) : t \in FilterTimes}, MaxRows)}

\* the [start_date, end_date] calculate_monthly_snow_drift is called on:
\* the season of FirstYear; July up to the first second of August; from
\* inside one month to inside the next; from the last second of January;
\* and a range that ends before it starts
MonthlyRanges ==
    { <<Ts(FirstYear, 7, 1, 0, 0, 0), Ts(FirstYear + 1, 6, 30, 23, 59, 59)>>,
      <<Ts(FirstYear, 7, 1, 0, 0, 0), Ts(FirstYear, 8, 1, 0, 0, 0)>>,
      <<Ts(FirstYear, 7, 15, 12, 0, 0), Ts(FirstYear, 8, 10, 6, 30, 0)>>,
      <<Ts(FirstYear + 1, 1, 31, 23, 59, 59), Ts(FirstYear + 1, 3, 1, 12, 0, 0)>>,
      <<Ts(FirstYear, 8, 1, 0, 0, 0), Ts(FirstYear, 7, 1, 0, 0, 0)>> }

\* directory listings for the page: none with a matching name, and one file
\* with an hour in July, one on 1 August 00:00 and one in January
PageDirs ==
    { <<>>,
      <<DataFile(TRUE, 60, 10, TRUE,
                 <<PlainRow(Ts(FirstYear, 7, 1, 0, 0, 0)), PlainRow(Ts(FirstYear, 8, 1, 0, 0, 0)),
                   PlainRow(Ts(FirstYear + 1, 1, 1, 0, 0, 0))>>)>> }

\* what the archive holds for the place asked for: hours in time order,
\* drawn from the rows of RoseRows
Archives ==
    {rows \in SeqsUpTo(RoseRows, MaxRows) :
        \A i \in 1..(Len(rows) - 1) : TsLe(rows[i].time, rows[i + 1].time)}

\* the [start_year, end_year] the page's plot_wind_rose is asked for: those
\* of YearRanges, and one that ends before it starts
PagesYearRanges == YearRanges \cup {<<FirstYear + 1, FirstYear>>}

\* the points of the map a click can report, as <<lat, lon>>
MapPoints == {<<60, 10>>, <<69, 19>>, <<63, 10>>, <<58, 8>>, <<0, 0>>}

\* the GeoJSON features: two price areas that overlap in <<63, 10>>, named
\* with a zero and with a space, and a line, which contains no click
GeoFeatures ==
    << Feature(PyStr(<<"N", "0", "1">>), "Polygon", {<<60, 10>>, <<63, 10>>}),
       Feature(PyStr(<<"N", "O", " ", "4">>), "MultiPolygon", {<<69, 19>>, <<63, 10>>}),
       Feature(PyNone, "LineString", {<<58, 8>>}) >>

\* what st_folium reports as last_clicked
LastClicks == {PyNone} \cup {PyPoint(pt[1], pt[2]) : pt \in MapPoints}

\* the names that normalize_area_name is given: area codes written with a
\* zero and with the letter, with and without spaces, shorter and longer
\* strings, None and a number
AreaNames ==
    {PyStr(c) : c \in {<<"N", "0", "1">>, <<"N", "O", "1">>, <<"N", "0", " ">>,
                       <<"N", "O", " ", "4">>, <<"N", " ", "0", "1">>, <<"N", "0">>,
                       <<"N", "0", "1", "2">>, <<"S", "E", "3">>, <<>>}}
        \cup {PyNone, [type |-> "int", v |-> 5]}

\* the two pages that define normalize_area_name
NormalizePages == {"Map", "EnergyMap"}

\* the widget values of a run of Pages/Map.py: without data there is no
\* map to report a click
MapGivens ==
    {g \in [means_empty : BOOLEAN, last_clicked : LastClicks] :
        g.means_empty => g.last_clicked = PyNone}

\* the widget values of a run of the Energy Map page, and the data
\* directory it finds
EnergyMapGivens ==
    {[means_empty |-> e, last_clicked |-> c, slider |-> sl, dir |-> dir] :
        e \in BOOLEAN, c \in {PyNone, PyPoint(60, 10)},
        sl \in {<<FirstYear, FirstYear>>, <<FirstYear, FirstYear + 1>>}, dir \in PageDirs}

\* the four radios of the sidebar
AppGivens ==
    {[Overview |-> group_keys("Overview")[o], Analysis |-> group_keys("Analysis")[a],
      Mapping |-> group_keys("Mapping")[m], Forecasting |-> group_keys("Forecasting")[f]] :
        o \in 1..Len(page_groups.Overview), a \in 1..Len(page_groups.Analysis),
        m \in 1..Len(page_groups.Mapping), f \in 1..Len(page_groups.Forecasting)}

---------------------------------------------------------------------------
(* The calls *)

\* no call in progress, and none to look back on
Idle ==
    /\ op = "none"
    /\ args = <<>>
    /\ result = Returned(<<>>)
    /\ trace = <<>>
    /\ locals = <<>>

\* the threads that invoke the estimator at the same time
Threads == {"t1", "t2"}

\* a frame before its thread has invoked anything
NoFrame ==
    [pc |-> "idle", op |-> "none", given |-> <<>>, i |-> 0, j |-> 0, total |-> Flt(0),
     group |-> <<>>, sectors_list |-> <<>>, result |-> Returned(<<>>), overlapped |-> FALSE]

\* no thread has invoked anything: no argument object, no list allocated
NoThreads ==
    /\ frames = [t \in Threads |-> NoFrame]
    /\ heap = [args |-> [t \in Threads |-> <<>>], sectors |-> [t \in Threads |-> <<>>]]

Init == Idle /\ NoThreads /\ NoSession

\* the caller is done with the last call's result; the functions keep nothing
Forget ==
    /\ op # "none"
    /\ UNCHANGED <<threadvars, appvars>>
    /\ op' = "none"
    /\ args' = <<>>
    /\ result' = Returned(<<>>)
    /\ trace' = <<>>
    /\ locals' = <<>>

Call_compute_Qupot ==
    /\ op = "none"
    /\ UNCHANGED <<threadvars, appvars>>
    /\ \E ws \in SpeedSeqs :
        /\ op' = "compute_Qupot"
        /\ args' = [hourly_wind_speeds |-> ws]
        /\ result' = Returned(compute_Qupot(ws, DT))
        /\ trace' = <<>>
        /\ locals' = <<>>

Call_sector_index ==
    /\ op = "none"
    /\ UNCHANGED <<threadvars, appvars>>
    /\ \E d \in DirGrid \cup {NaN} :
        /\ op' = "sector_index"
        /\ args' = [direction |-> d]
        /\ result' = IF sector_index_raises(d) THEN Raised("ValueError")
                     ELSE Returned(sector_index(d))
        /\ trace' = <<>>
        /\ locals' = <<>>

Call_compute_sector_transport ==
    /\ op = "none"
    /\ UNCHANGED <<threadvars, appvars>>
    /\ \E call \in SectorCalls :
        LET ws == call[1]
            wd == call[2]
        IN  /\ op' = "compute_sector_transport"
            /\ args' = [hourly_wind_speeds |-> ws, hourly_wind_dirs |-> wd]
            /\ result' = IF compute_sector_transport_raises(ws, wd) THEN Raised("ValueError")
                         ELSE Returned(compute_sector_transport(ws, wd, DT))
            /\ trace' = IF ZipLen(ws, wd) = 0 THEN <<>> ELSE <<"sector_index">>
            /\ locals' = <<>>

Call_compute_snow_transport ==
    /\ op = "none"
    /\ UNCHANGED <<threadvars, appvars>>
    /\ \E T \in TSamples, m \in FMultiples, theta \in ThetaSamples, ws \in SpeedSeqs :
        \E Swe \in SweSamples(T, ws) :
            /\ op' = "compute_snow_transport"
            /\ args' = [T |-> T, F |-> FMul(m, T), theta |-> theta, Swe |-> Swe,
                        hourly_wind_speeds |-> ws]
            /\ result' = ReturnedDict(compute_snow_transport(T, FMul(m, T), theta, Swe, ws, DT))
            /\ trace' = <<"compute_Qupot">>
            /\ locals' = <<>>

Call_Pages_compute_snow_transport ==
    /\ op = "none"
    /\ UNCHANGED <<threadvars, appvars>>
    /\ \E T \in TSamples, m \in {Flt(10)}, theta \in ThetaSamples, ws \in SpeedSeqs :
        \E Swe \in SweSamples(T, ws) :
            /\ op' = "Pages.Snowdrift.compute_snow_transport"
            /\ args' = [T |-> T, F |-> FMul(m, T), theta |-> theta, Swe |-> Swe,
                        hourly_wind_speeds |-> ws]
            /\ result' = Returned(Pages_compute_snow_transport(T, FMul(m, T), theta, Swe, ws, DT))
            /\ trace' = <<"compute_Qupot">>
            /\ locals' = <<>>

Call_compute_fence_height ==
    /\ op = "none"
    /\ UNCHANGED <<threadvars, appvars>>
    /\ \E Qt \in QtSamples, fence_type \in FenceTypes :
        /\ op' = "compute_fence_height"
        /\ args' = [Qt |-> Qt, fence_type |-> fence_type]
        /\ result' = IF compute_fence_height_raises(Qt, fence_type) THEN Raised("ValueError")
                     ELSE Returned(compute_fence_height(Qt, fence_type))
        /\ trace' = <<>>
        /\ locals' = <<>>

Call_compute_average_sector ==
    /\ op = "none"
    /\ UNCHANGED <<threadvars, appvars>>
    /\ \E df \in SectorFrames :
        /\ op' = "compute_average_sector"
        /\ args' = [df |-> df]
        /\ result' = IF compute_average_sector_raises(df) THEN Raised("ValueError")
                     ELSE Returned(compute_average_sector(df))
        /\ trace' = IF df = <<>> THEN <<>> ELSE <<"compute_sector_transport">>
        /\ locals' = [sectors_list |-> IF compute_average_sector_raises(df) THEN <<>>
                                       ELSE sectors_list_of(df)]

Call_load_meteo_csv ==
    /\ op = "none"
    /\ UNCHANGED <<threadvars, appvars>>
    /\ \E file \in LoadableFiles :
            /\ op' = "_load_meteo_csv"
            /\ args' = [file |-> file]
            /\ result' = IF load_meteo_csv_raises(file) THEN Raised("ValueError")
                         ELSE Returned(load_meteo_csv(file))
            /\ trace' = <<>>
            /\ locals' = <<>>

Call_calculate_snow_drift ==
    /\ op = "none"
    /\ UNCHANGED <<threadvars, appvars>>
    /\ \E ll \in LatLons, range \in DateRanges, dir \in DataDirs \cup {DayDir} :
        \E out \in {calculate_snow_drift(ll[1], ll[2], range[1], range[2], dir)} :
            /\ op' = "calculate_snow_drift"
            /\ args' = [lat |-> ll[1], lon |-> ll[2], start_date |-> range[1],
                        end_date |-> range[2], dir |-> dir]
            /\ result' = out.result
            /\ trace' = out.trace
            /\ locals' = out.locals

Call_plot_wind_rose ==
    /\ op = "none"
    /\ UNCHANGED <<threadvars, appvars>>
    /\ \E ll \in LatLons, years \in YearRanges, dir \in RoseDirs :
        \E out \in {plot_wind_rose(ll[1], ll[2], years[1], years[2], dir)} :
            /\ op' = "plot_wind_rose"
            /\ args' = [lat |-> ll[1], lon |-> ll[2], start_year |-> years[1],
                        end_year |-> years[2], dir |-> dir]
            /\ result' = out.result
            /\ trace' = out.trace
            /\ locals' = out.locals

Call_filter_range ==
    /\ op = "none"
    /\ UNCHANGED <<threadvars, appvars>>
    /\ \E df \in FilterFrames, range \in DateRanges :
        \E out \in {filter_range_objects(df, range[1], range[2])} :
            /\ op' = "_filter_range"
            /\ args' = [df |-> df, start_date |-> range[1], end_date |-> range[2]]
            /\ result' = out.result
            /\ trace' = out.trace
            /\ locals' = out.locals

Call_calculate_monthly_snow_drift ==
    /\ op = "none"
    /\ UNCHANGED <<threadvars, appvars>>
    /\ \E ll \in LatLons, range \in MonthlyRanges, dir \in PageDirs :
        \E out \in {calculate_monthly_snow_drift(ll[1], ll[2], range[1], range[2], dir)} :
            /\ op' = "calculate_monthly_snow_drift"
            /\ args' = [lat |-> ll[1], lon |-> ll[2], start_date |-> range[1],
                        end_date |-> range[2], dir |-> dir]
            /\ result' = out.result
            /\ trace' = out.trace
            /\ locals' = out.locals

Call_Pages_plot_wind_rose ==
    /\ op = "none"
    /\ UNCHANGED <<threadvars, appvars>>
    /\ \E ll \in LatLons, years \in PagesYearRanges, archive \in Archives :
        \E out \in {Pages_plot_wind_rose(ll[1], ll[2], years[1], years[2], archive)} :
            /\ op' = "Pages.Snowdrift.plot_wind_rose"
            /\ args' = [lat |-> ll[1], lon |-> ll[2], start_year |-> years[1],
                        end_year |-> years[2], archive |-> archive]
            /\ result' = out.result
            /\ trace' = out.trace
            /\ locals' = out.locals

\* normalize_area_name of the page
normalize_area_name(page, name) ==
    IF page = "Map" THEN Map_normalize_area_name(name)
    ELSE EnergyMap_normalize_area_name(name)

Call_normalize_area_name ==
    /\ op = "none"
    /\ UNCHANGED <<threadvars, appvars>>
    /\ \E page \in NormalizePages, name \in AreaNames :
        /\ op' = "normalize_area_name"
        /\ args' = [page |-> page, name |-> name]
        /\ result' = Returned(normalize_area_name(page, name))
        /\ trace' = <<>>
        /\ locals' = <<>>

Next ==
    \/ Call_compute_Qupot
    \/ Call_sector_index
    \/ Call_compute_sector_transport
    \/ Call_compute_snow_transport
    \/ Call_Pages_compute_snow_transport
    \/ Call_compute_fence_height
    \/ Call_compute_average_sector
    \/ Call_load_meteo_csv
    \/ Call_calculate_snow_drift
    \/ Call_plot_wind_rose
    \/ Call_filter_range
    \/ Call_calculate_monthly_snow_drift
    \/ Call_Pages_plot_wind_rose
    \/ Call_normalize_area_name
    \/ Forget

Spec == Init /\ [][Next]_vars

---------------------------------------------------------------------------
(* Concurrent invocations of the estimator functions, one statement or one
   loop iteration at a time *)

\* one list for every invocation, whichever thread makes it
fresh_sectors_shared(t) == "t1"

\* the list object that "sectors = [0.0] * 16" creates: a new one for the
\* invocation of thread t
fresh_sectors(t) == t

\* constant series of MaxHours hours
ThreadSpeeds == {[h \in 1..MaxHours |-> u] : u \in {Flt(1), Flt(3)}}

ThreadDirs == {[h \in 1..MaxHours |-> d] : d \in {Flt(45), Flt(360), NaN}}

\* dataframes of MaxRows rows, in alternating seasons
ThreadFrames ==
    {load_meteo_csv(DataFile(TRUE, 60, 10, TRUE,
        [r \in 1..MaxRows |->
            CsvRow(Ts(FirstYear + (r % 2), 7, 1, 0, 0, 0), Flt(-5), Flt(1), Flt(r), d)])) :
        d \in {Flt(45), NaN}}

\* the invocations a thread chooses from
ThreadCalls ==
    {[op |-> "compute_Qupot", args |-> [hourly_wind_speeds |-> ws]] : ws \in ThreadSpeeds}
        \cup {[op |-> "compute_sector_transport",
               args |-> [hourly_wind_speeds |-> ws, hourly_wind_dirs |-> wd]] :
                ws \in ThreadSpeeds, wd \in ThreadDirs}
        \cup {[op |-> "compute_snow_transport",
               args |-> [T |-> Flt(Tabler_T), F |-> Flt(Tabler_F), theta |-> Tabler_theta,
                         Swe |-> Flt(1), hourly_wind_speeds |-> ws]] : ws \in ThreadSpeeds}
        \cup {[op |-> "compute_average_sector", args |-> [df |-> df]] : df \in ThreadFrames}
        \cup {[op |-> "compute_fence_height", args |-> [Qt |-> Flt(8500), fence_type |-> ft]] :
                ft \in {<<"W", "y", "o", "m", "i", "n", "g">>, <<"w", "o", "o", "d">>}}

\* the first statement of each function
EntryPc(f) ==
    CASE f = "compute_Qupot" -> "sum"
      [] f = "compute_snow_transport" -> "sum"
      [] f = "compute_sector_transport" -> "zip"
      [] f = "compute_average_sector" -> "groupby"
      [] f = "compute_fence_height" -> "height"

Running(t) == frames[t].pc \notin {"idle", "done"}

\* the two lists the zip loop of thread t walks: the caller's arguments, or
\* ws and wdir of compute_average_sector
zip_speeds(t) ==
    IF frames[t].op = "compute_sector_transport" THEN heap.args[t].hourly_wind_speeds
    ELSE wind_speeds_of(frames[t].group)

zip_dirs(t) ==
    IF frames[t].op = "compute_sector_transport" THEN heap.args[t].hourly_wind_dirs
    ELSE wind_dirs_of(frames[t].group)

\* a thread calls a function: its arguments are the caller's objects
T_Invoke ==
    /\ UNCHANGED <<callvars, appvars>>
    /\ \E t \in Threads, c \in ThreadCalls :
        /\ frames[t].pc = "idle"
        /\ frames' = [frames EXCEPT ![t] =
                        [NoFrame EXCEPT !.pc = EntryPc(c.op), !.op = c.op, !.given = c.args,
                                        !.i = 1, !.j = 1,
                                        !.overlapped = \E u \in Threads \ {t} : Running(u)]]
        /\ heap' = [heap EXCEPT !.args[t] = c.args,
                                !.sectors[fresh_sectors(t)] =
                                    IF c.op = "compute_sector_transport"
                                    THEN [k \in 1..16 |-> Flt(0)] ELSE @]

\* one term of the generator that sum() consumes in compute_Qupot
T_SumStep ==
    /\ UNCHANGED <<callvars, appvars>>
    /\ UNCHANGED heap
    /\ \E t \in Threads :
        LET ws == heap.args[t].hourly_wind_speeds
        IN  /\ frames[t].pc = "sum"
            /\ frames[t].i <= Len(ws)
            /\ frames' = [frames EXCEPT ![t].total = FAdd(@, HourTerm(ws[frames[t].i], DT)),
                                        ![t].i = @ + 1]

\* compute_Qupot returns; compute_snow_transport goes on to its return
T_SumEnd ==
    /\ UNCHANGED <<callvars, appvars>>
    /\ UNCHANGED heap
    /\ \E t \in Threads :
        LET a == heap.args[t]
            Qupot == FDiv(frames[t].total, Flt(233847))
        IN  /\ frames[t].pc = "sum"
            /\ frames[t].i > Len(a.hourly_wind_speeds)
            /\ frames' = [frames EXCEPT ![t].pc = "done",
                            ![t].result =
                                IF frames[t].op = "compute_Qupot" THEN Returned(Qupot)
                                ELSE ReturnedDict(tabler_estimate(Qupot, a.T, a.F, a.theta, a.Swe))]

\* one iteration of the zip loop of compute_sector_transport
T_ZipStep ==
    /\ UNCHANGED <<callvars, appvars>>
    /\ \E t \in Threads :
        LET ws == zip_speeds(t)
            wd == zip_dirs(t)
            i  == frames[t].i
        IN  /\ frames[t].pc = "zip"
            /\ i <= ZipLen(ws, wd)
            /\ IF sector_index_raises(wd[i])
               THEN /\ frames' = [frames EXCEPT ![t].pc = "done",
                                                ![t].result = Raised("ValueError")]
                    /\ UNCHANGED heap
               ELSE /\ frames' = [frames EXCEPT ![t].i = @ + 1]
                    /\ heap' = [heap EXCEPT
                                  !.sectors[fresh_sectors(t)][sector_index(wd[i]) + 1] =
                                      FAdd(@, FDiv(HourTerm(ws[i], DT), Flt(233847)))]

\* compute_sector_transport returns its list: to the caller, or to the loop
\* of compute_average_sector, which appends it
T_ZipEnd ==
    /\ UNCHANGED <<callvars, appvars>>
    /\ UNCHANGED heap
    /\ \E t \in Threads :
        LET sectors == heap.sectors[fresh_sectors(t)]
        IN  /\ frames[t].pc = "zip"
            /\ frames[t].i > ZipLen(zip_speeds(t), zip_dirs(t))
            /\ frames' = IF frames[t].op = "compute_sector_transport"
                         THEN [frames EXCEPT ![t].pc = "done", ![t].result = Returned(sectors)]
                         ELSE [frames EXCEPT ![t].pc = "groupby", ![t].j = @ + 1,
                                             ![t].sectors_list = Append(@, sectors)]

\* the next group of df.groupby('season'): its copy gets the column
\* Swe_hourly, and compute_sector_transport is entered
T_GroupNext ==
    /\ UNCHANGED <<callvars, appvars>>
    /\ \E t \in Threads :
        LET df == heap.args[t].df
            labels == sorted_labels(seasons_of(df))
        IN  /\ frames[t].pc = "groupby"
            /\ frames[t].j <= Len(labels)
            /\ frames' = [frames EXCEPT ![t].pc = "zip", ![t].i = 1,
                            ![t].group = group_with_swe(group_of(df, labels[frames[t].j]))]
            /\ heap' = [heap EXCEPT !.sectors[fresh_sectors(t)] = [k \in 1..16 |-> Flt(0)]]

\* the groups are exhausted: compute_average_sector returns
T_AverageEnd ==
    /\ UNCHANGED <<callvars, appvars>>
    /\ UNCHANGED heap
    /\ \E t \in Threads :
        LET labels == sorted_labels(seasons_of(heap.args[t].df))
            sectors_list == frames[t].sectors_list
        IN  /\ frames[t].pc = "groupby"
            /\ frames[t].j > Len(labels)
            /\ frames' = [frames EXCEPT ![t].pc = "done",
                            ![t].result = Returned(IF no_sectors(sectors_list)
                                                   THEN [k \in 1..16 |-> Flt(0)]
                                                   ELSE np_mean_axis0(sectors_list))]

\* compute_fence_height: straight-line code on its arguments
T_Height ==
    /\ UNCHANGED <<callvars, appvars>>
    /\ UNCHANGED heap
    /\ \E t \in Threads :
        LET a == heap.args[t]
        IN  /\ frames[t].pc = "height"
            /\ frames' = [frames EXCEPT ![t].pc = "done",
                            ![t].result =
                                IF compute_fence_height_raises(a.Qt, a.fence_type)
                                THEN Raised("ValueError")
                                ELSE Returned(compute_fence_height(a.Qt, a.fence_type))]

NextThreads ==
    \/ T_Invoke
    \/ T_SumStep
    \/ T_SumEnd
    \/ T_ZipStep
    \/ T_ZipEnd
    \/ T_GroupNext
    \/ T_AverageEnd
    \/ T_Height

SpecThreads == Init /\ [][NextThreads]_vars

---------------------------------------------------------------------------
(* The script runs of one browser session *)

\* the user acts (or the page is opened) and streamlit_app.py runs
App_Run ==
    /\ ~script.rerun
    /\ UNCHANGED <<callvars, threadvars>>
    /\ \E given \in AppGivens :
        \E out \in {App_script(session, given)} :
            /\ session' = out.session
            /\ script' = out.script

\* the user acts and Pages/Map.py runs
Map_Run ==
    /\ ~script.rerun
    /\ UNCHANGED <<callvars, threadvars>>
    /\ \E given \in MapGivens :
        \E out \in {Map_script(session, given, GeoFeatures)} :
            /\ session' = out.session
            /\ script' = [out.script EXCEPT !.reruns = IF out.script.rerun THEN 1 ELSE 0]

\* st.rerun() has ended the run of Pages/Map.py: the script runs again with
\* the same widget values; the map reports the same click again, or none
\* when its component is mounted anew
Map_Rerun ==
    /\ script.rerun
    /\ script.entry = "Map"
    /\ UNCHANGED <<callvars, threadvars>>
    /\ \E last_clicked \in {script.given.last_clicked, PyNone} :
        \E out \in {Map_script(session, [script.given EXCEPT !.last_clicked = last_clicked],
                                GeoFeatures)} :
            /\ session' = out.session
            /\ script' = [out.script EXCEPT
                             !.reruns = IF out.script.rerun /\ script.reruns < MaxReruns
                                        THEN script.reruns + 1 ELSE script.reruns]

\* the user acts and the Energy Map page runs
EnergyMap_Run ==
    /\ ~script.rerun
    /\ UNCHANGED <<callvars, threadvars>>
    /\ \E given \in EnergyMapGivens :
        \E out \in {EnergyMap_script(session, given, GeoFeatures)} :
            /\ session' = out.session
            /\ script' = out.script

\* the browser tab is reloaded: a new session
NewSession ==
    /\ script.entry # "none"
    /\ ~script.rerun
    /\ UNCHANGED <<callvars, threadvars>>
    /\ session' = [k \in SessionKeys |-> Absent]
    /\ script' = NoScript

NextApp ==
    \/ App_Run
    \/ Map_Run
    \/ Map_Rerun
    \/ EnergyMap_Run
    \/ NewSession

SpecApp == Init /\ [][NextApp]_vars

---------------------------------------------------------------------------
(* Properties *)

Called(f) == op = f

ReturnedOk == result.exc = "None"

HasNaN(xs) == \E i \in 1..Len(xs) : IsNaN(xs[i])

\* C1: for equal-length wind-speed and wind-direction sequences with finite
\* directions, the 16 values compute_sector_transport returns sum to
\* compute_Qupot of the speeds, and sector k holds exactly the contributions
\* of the hours whose direction falls in sector k.
C1_SectorSumEqualsQupot ==
    (/\ Called("compute_sector_transport")
     /\ Len(args.hourly_wind_speeds) = Len(args.hourly_wind_dirs)
     /\ ~HasNaN(args.hourly_wind_dirs))
    => /\ ReturnedOk
       /\ Len(result.val) = 16
       /\ FSum(result.val) = compute_Qupot(args.hourly_wind_speeds, DT)
       /\ \A k \in 1..16 :
            LET hours == {i \in 1..Len(args.hourly_wind_dirs) :
                            sector_index(args.hourly_wind_dirs[i]) = k - 1}
            IN  /\ (hours = {} => result.val[k] = Flt(0))
                /\ (\E i \in hours : IsNaN(args.hourly_wind_speeds[i])) <=> IsNaN(result.val[k])

\* two hours of wind from different directions, each with its own sector
C1_Witness ==
    /\ Called("compute_sector_transport")
    /\ ReturnedOk
    /\ Len(args.hourly_wind_speeds) = 2
    /\ Len(args.hourly_wind_dirs) = 2
    /\ ~HasNaN(args.hourly_wind_speeds)
    /\ Cardinality({k \in 1..16 : result.val[k] # Flt(0)}) = 2

\* C2: compute_snow_transport is snowfall controlled (Qinf = 0.5*T*theta*Swe)
\* exactly when Qupot > Qspot, and wind controlled (Qinf = Qupot) otherwise,
\* equality of Qupot and Qspot included; Control is one of the two labels
\* and names the branch that gave Qinf.
C2_RegimeByStrictComparison ==
    Called("compute_snow_transport") =>
        LET r == result.val
        IN  /\ ReturnedOk
            /\ r.Qupot = compute_Qupot(args.hourly_wind_speeds, DT)
            /\ r.Qspot = FMul(FMul(Rat(1, 2), args.T), args.Swe)
            /\ r.Control \in {"Snowfall controlled", "Wind controlled"}
            /\ FGt(r.Qupot, r.Qspot) =>
                 /\ r.Control = "Snowfall controlled"
                 /\ r.Qinf = FMul(FMul(FMul(Rat(1, 2), args.T), args.theta), args.Swe)
            /\ ~FGt(r.Qupot, r.Qspot) =>
                 /\ r.Control = "Wind controlled"
                 /\ r.Qinf = r.Qupot

\* Qupot exactly equal to a non-zero Qspot, decided as wind controlled
C2_Witness ==
    /\ Called("compute_snow_transport")
    /\ result.val.Qupot = result.val.Qspot
    /\ FGt(result.val.Qupot, Flt(0))
    /\ result.val.Control = "Wind controlled"
    /\ result.val.Qinf = result.val.Qupot

\* 22.5 * i - 11.25 <= d < 22.5 * i + 11.25
InSectorSpan(d, i) ==
    /\ FLe(FSub(FMul(Rat(225, 10), Flt(i)), Rat(1125, 100)), d)
    /\ FLt(d, FAdd(FMul(Rat(225, 10), Flt(i)), Rat(1125, 100)))

\* C3: for a direction in [0, 360] sector_index returns an index i in 0..15
\* with 22.5*i - 11.25 <= d < 22.5*i + 11.25 modulo 360, the only such i;
\* 0 and 360 give sector 0 (N), and the nominal bearing of the i-th label of
\* the fixed order N, NNE, ..., NNW gives i.
C3_SectorIndexSpans ==
    (Called("sector_index") /\ ~IsNaN(args.direction)) =>
        /\ ReturnedOk
        /\ result.val \in 0..15
        /\ \/ InSectorSpan(args.direction, result.val)
           \/ InSectorSpan(FSub(args.direction, Flt(360)), result.val)
        /\ \A i \in 0..15 :
             (InSectorSpan(args.direction, i) \/ InSectorSpan(FSub(args.direction, Flt(360)), i))
                => i = result.val
        /\ args.direction \in {Flt(0), Flt(360)} => directions[result.val + 1] = "N"
        /\ \A i \in 0..15 :
             args.direction = FMul(Rat(225, 10), Flt(i)) => result.val = i

\* a direction on the lower boundary of N, 348.75, wraps around to sector 0
C3_Witness ==
    /\ Called("sector_index")
    /\ args.direction = Rat(34875, 100)
    /\ result = Returned(0)

\* C4: compute_sector_transport called with wind-speed and wind-direction
\* sequences of different lengths fails with an error and returns no result.
C4_LengthMismatchFailsFast ==
    (/\ Called("compute_sector_transport")
     /\ Len(args.hourly_wind_speeds) # Len(args.hourly_wind_dirs))
    => ~ReturnedOk

\* the hour with its contribution set to zero: no wind, no precipitation
RowHasNaN(r) ==
    \/ IsNaN(r.temperature)
    \/ IsNaN(r.precipitation)
    \/ IsNaN(r.wind_speed)
    \/ IsNaN(r.wind_direction)

ZeroedRow(r) ==
    IF RowHasNaN(r)
    THEN CsvRow(r.time, Flt(0), Flt(0), Flt(0), Flt(0))
    ELSE r

ZeroedFile(f) ==
    DataFile(f.name_ok, f.flat, f.flon, f.has_time, [i \in 1..Len(f.rows) |-> ZeroedRow(f.rows[i])])

ZeroedDir(dir) == [i \in 1..Len(dir) |-> ZeroedFile(dir[i])]

ZeroedSpeeds(ws, wd) ==
    [i \in 1..Len(ws) |-> IF IsNaN(ws[i]) \/ IsNaN(wd[i]) THEN Flt(0) ELSE ws[i]]

ZeroedDirs(wd) == [i \in 1..Len(wd) |-> IF IsNaN(wd[i]) THEN Flt(0) ELSE wd[i]]

\* C5: an hour with a missing (NaN) temperature, precipitation, wind speed or
\* wind direction contributes zero: Qupot, the sector values and the Qt of
\* calculate_snow_drift are those of the same series with that hour's
\* contribution set to zero, so no NaN and no exception comes of it.
C5_MissingHourContributesZero ==
    /\ Called("compute_Qupot") =>
         result = Returned(compute_Qupot(
                     ZeroedSpeeds(args.hourly_wind_speeds, args.hourly_wind_speeds), DT))
    /\ (Called("compute_sector_transport")
            /\ Len(args.hourly_wind_speeds) = Len(args.hourly_wind_dirs)) =>
         result = Returned(compute_sector_transport(
                     ZeroedSpeeds(args.hourly_wind_speeds, args.hourly_wind_dirs),
                     ZeroedDirs(args.hourly_wind_dirs), DT))
    /\ Called("calculate_snow_drift") =>
         result = calculate_snow_drift(args.lat, args.lon, args.start_date, args.end_date,
                                       ZeroedDir(args.dir)).result

InTrace(f) == \E i \in 1..Len(trace) : trace[i] = f

\* the precipitation of the rows a predicate on the temperature keeps
ColdPrecipitation(df) ==
    LET keep(r) == FLt(r.temperature, Flt(1)) /\ ~IsNaN(r.precipitation)
        kept    == SelectSeq(df, keep)
    IN  FSum([i \in 1..Len(kept) |-> kept[i].precipitation])

\* C6: Swe_total of calculate_snow_drift is the sum of the precipitation of
\* the hours of the period whose temperature is strictly below 1 C (an hour
\* at exactly 1 C adds nothing); it is 0 when every temperature is >= 1, and
\* it is the Swe the transport is computed from.
C6_SweTemperatureGated ==
    (Called("calculate_snow_drift") /\ InTrace("compute_snow_transport")) =>
        /\ locals.Swe_total = ColdPrecipitation(locals.df_period)
        /\ (\A i \in 1..Len(locals.df_period) : FGe(locals.df_period[i].temperature, Flt(1)))
              => locals.Swe_total = Flt(0)
        /\ locals.res.Qspot = FMul(FMul(Rat(1, 2), Flt(Tabler_T)), locals.Swe_total)

\* a period of a freezing hour and an hour at exactly 1 C, both with 1 mm:
\* only the freezing hour counts
C6_Witness ==
    /\ Called("calculate_snow_drift")
    /\ InTrace("compute_snow_transport")
    /\ Len(locals.df_period) = 2
    /\ \E i, j \in 1..2 :
         /\ locals.df_period[i].temperature = Flt(1)
         /\ locals.df_period[i].precipitation = Flt(1)
         /\ locals.df_period[j].temperature = Flt(-5)
         /\ locals.df_period[j].precipitation = Flt(1)
    /\ locals.Swe_total = Flt(1)

\* the file calculate_snow_drift reads, 0 when there is none
ChosenFile == resolve_csv_path(args.lat, args.lon, args.dir)

\* C7: calculate_snow_drift, when a data file is found and loads but none of
\* its observations lies in [start_date, end_date], returns NaN, raises
\* nothing and does not invoke compute_snow_transport.
C7_EmptyPeriodReturnsNaN ==
    (/\ Called("calculate_snow_drift")
     /\ ChosenFile # 0
     /\ args.dir[ChosenFile].has_time
     /\ \A i \in 1..Len(args.dir[ChosenFile].rows) :
            ~in_range(args.dir[ChosenFile].rows[i].time, args.start_date, args.end_date))
    => /\ result = Returned(NaN)
       /\ ~InTrace("compute_snow_transport")
       /\ ~InTrace("compute_Qupot")

\* a file with rows, all of them before the requested period
C7_Witness ==
    /\ Called("calculate_snow_drift")
    /\ ChosenFile # 0
    /\ Len(args.dir[ChosenFile].rows) = 2
    /\ result = Returned(NaN)
    /\ trace = <<"_resolve_csv_path", "_load_meteo_csv", "_filter_range">>

\* C8: compute_Qupot of no wind speeds is 0, and compute_snow_transport of no
\* wind speeds (T > 0, Swe >= 0) has Qupot = 0, is wind controlled, and has
\* Qinf = 0 and Qt = 0.
C8_EmptyInputIsZero ==
    /\ (Called("compute_Qupot") /\ args.hourly_wind_speeds = <<>>) =>
          result = Returned(Flt(0))
    /\ (Called("compute_snow_transport") /\ args.hourly_wind_speeds = <<>>) =>
          /\ ReturnedOk
          /\ result.val.Qupot = Flt(0)
          /\ result.val.Control = "Wind controlled"
          /\ result.val.Qinf = Flt(0)
          /\ result.val.Qt = Flt(0)

\* no wind speeds, a positive Swe and a positive fetch
C8_Witness ==
    /\ Called("compute_snow_transport")
    /\ args.hourly_wind_speeds = <<>>
    /\ args.Swe = Flt(1)
    /\ args.F = Flt(30000)
    /\ result.val.Qt = Flt(0)

\* the capital of a lower-case letter
UpperOf(c) ==
    CASE c = "w" -> "W" [] c = "y" -> "Y" [] c = "o" -> "O" [] c = "m" -> "M"
      [] c = "i" -> "I" [] c = "n" -> "N" [] c = "g" -> "G" [] c = "s" -> "S"
      [] c = "l" -> "L" [] c = "a" -> "A" [] c = "t" -> "T" [] c = "d" -> "D"
      [] c = "r" -> "R" [] c = "e" -> "E"
      [] OTHER -> c

\* s is the lower-case string l up to letter case
SameUpToCase(s, l) ==
    /\ Len(s) = Len(l)
    /\ \A i \in 1..Len(l) : s[i] = l[i] \/ s[i] = UpperOf(l[i])

\* C9: compute_fence_height raises for every fence_type that is not, up to
\* letter case, "wyoming", "slat-and-wire", "slat and wire" or "solid", and
\* returns no height; for these it returns (Qt/1000/factor) ** (1/2.2) with
\* factor 8.5, 7.7, 7.7 and 2.9.
C9_FenceTypeValidated ==
    Called("compute_fence_height") =>
        LET ft == args.fence_type
            factor ==
                IF SameUpToCase(ft, <<"w", "y", "o", "m", "i", "n", "g">>) THEN Rat(85, 10)
                ELSE IF \/ SameUpToCase(ft, <<"s", "l", "a", "t", "-", "a", "n", "d", "-", "w", "i", "r", "e">>)
                        \/ SameUpToCase(ft, <<"s", "l", "a", "t", " ", "a", "n", "d", " ", "w", "i", "r", "e">>)
                     THEN Rat(77, 10)
                ELSE IF SameUpToCase(ft, <<"s", "o", "l", "i", "d">>) THEN Rat(29, 10)
                ELSE NaN
        IN  IF IsNaN(factor)
            THEN result = Raised("ValueError")
            ELSE result = Returned(Root22(FDiv(FDiv(args.Qt, Flt(1000)), factor)))

\* "SLAT AND WIRE" in capitals with Qt = 7700 kg/m: the factor is 7.7, H = 1
C9_Witness ==
    /\ Called("compute_fence_height")
    /\ args.fence_type = <<"S", "L", "A", "T", " ", "A", "N", "D", " ", "W", "I", "R", "E">>
    /\ args.Qt = Flt(7700)
    /\ result = Returned(Flt(1))

\* t lies in the window from July 1 of y, 00:00:00, to June 30 of y + 1, 23:59:59
InSeasonWindow(t, y) ==
    /\ TsLe(Ts(y, 7, 1, 0, 0, 0), t)
    /\ TsLe(t, Ts(y + 1, 6, 30, 23, 59, 59))

WindowYears == (FirstYear - 1)..(FirstYear + NumYears)

\* C10: _load_meteo_csv labels every observation with its calendar year when
\* its month is >= 7 and with the year before otherwise; the label is the
\* one July-to-June window the observation lies in, so two observations have
\* the same label exactly when they lie in the same window.
C10_SeasonLabel ==
    (Called("_load_meteo_csv") /\ ReturnedOk) =>
        LET df == result.val
        IN  /\ Len(df) = Len(args.file.rows)
            /\ \A i \in 1..Len(df) :
                 /\ df[i].time = args.file.rows[i].time
                 /\ df[i].season = IF df[i].time[2] >= 7 THEN df[i].time[1] ELSE df[i].time[1] - 1
                 /\ {y \in WindowYears : InSeasonWindow(df[i].time, y)} = {df[i].season}
            /\ \A i, j \in 1..Len(df) :
                 (df[i].season = df[j].season)
                    <=> (\E y \in WindowYears : InSeasonWindow(df[i].time, y)
                                                 /\ InSeasonWindow(df[j].time, y))

\* the last hour of June and the first hour of July of one year get
\* different labels
C10_Witness ==
    /\ Called("_load_meteo_csv")
    /\ ReturnedOk
    /\ result.val[1].time = Ts(FirstYear + 1, 6, 30, 23, 0, 0)
    /\ result.val[2].time = Ts(FirstYear + 1, 7, 1, 0, 0, 0)
    /\ result.val[1].season = FirstYear
    /\ result.val[2].season = FirstYear + 1

\* the sum of the values of a function with a finite domain
RECURSIVE FnSum(_)
FnSum(f) ==
    IF DOMAIN f = {} THEN Flt(0)
    ELSE LET x == CHOOSE x \in DOMAIN f : TRUE
         IN  FAdd(f[x], FnSum([y \in (DOMAIN f) \ {x} |-> f[y]]))

\* the rows of df that carry the season label s, in their order
SeasonRows(df, s) == SelectSeq(df, LAMBDA r : r.season = s)

\* C11: on a data set of n >= 1 seasons (with finite wind directions)
\* compute_average_sector returns 16 values, value k being the arithmetic
\* mean over the n seasons of value k of compute_sector_transport on that
\* season's rows only; so the 16 values sum to the mean over the seasons of
\* the per-season Qupot.
C11_AverageIsSeasonMean ==
    (/\ Called("compute_average_sector")
     /\ args.df # <<>>
     /\ ~HasNaN(wind_dirs_of(args.df)))
    => LET S == seasons_of(args.df)
           n == Cardinality(S)
           per_season == [s \in S |->
                            compute_sector_transport(wind_speeds_of(SeasonRows(args.df, s)),
                                                     wind_dirs_of(SeasonRows(args.df, s)), DT)]
           Qupot == [s \in S |-> compute_Qupot(wind_speeds_of(SeasonRows(args.df, s)), DT)]
       IN  /\ ReturnedOk
           /\ Len(result.val) = 16
           /\ \A k \in 1..16 :
                result.val[k] = FDiv(FnSum([s \in S |-> per_season[s][k]]), Flt(n))
           /\ FSum(result.val) = FDiv(FnSum(Qupot), Flt(n))

\* two seasons with wind from different directions: two sectors are filled,
\* each with half of its season's transport
C11_Witness ==
    /\ Called("compute_average_sector")
    /\ ReturnedOk
    /\ Cardinality(seasons_of(args.df)) = 2
    /\ ~HasNaN(wind_speeds_of(args.df))
    /\ Cardinality({k \in 1..16 : result.val[k] # Flt(0)}) = 2

\* C12: compute_average_sector on a data set without rows (zero seasons)
\* raises nothing and returns exactly 16 zeros.
C12_NoSeasonsGivesZeros ==
    (Called("compute_average_sector") /\ args.df = <<>>)
    => /\ ReturnedOk
       /\ result.val = [k \in 1..16 |-> Flt(0)]

\* the call on the empty dataframe has returned, with no season collected
C12_Witness ==
    /\ Called("compute_average_sector")
    /\ args.df = <<>>
    /\ ReturnedOk
    /\ locals.sectors_list = <<>>

\* the constants k > 1 the speeds are multiplied by
ScaleFactors == {Flt(2), Flt(3)}

\* the series with every speed multiplied by k
Scaled(ws, k) == [i \in 1..Len(ws) |-> FMul(k, ws[i])]

NonNegative(ws) == \A i \in 1..Len(ws) : FGe(ws[i], Flt(0))

\* C13 as stated: for every series of non-negative speeds and every k > 1,
\* compute_Qupot of the series multiplied by k is strictly greater than
\* compute_Qupot of the series.
C13_ScalingStrictlyIncreases ==
    (Called("compute_Qupot") /\ NonNegative(args.hourly_wind_speeds))
    => \A k \in ScaleFactors :
            FGt(compute_Qupot(Scaled(args.hourly_wind_speeds, k), DT), result.val)

\* C13 amended: for every series of non-negative speeds and every k > 1,
\* compute_Qupot of the series multiplied by k is never smaller than
\* compute_Qupot of the series; it is strictly greater when some speed is
\* positive, and both are 0 when there is no hour or no wind at all.
C13_ScalingIncreases ==
    (Called("compute_Qupot") /\ NonNegative(args.hourly_wind_speeds))
    => \A k \in ScaleFactors :
            LET scaled == compute_Qupot(Scaled(args.hourly_wind_speeds, k), DT)
                windy  == \E i \in 1..Len(args.hourly_wind_speeds) :
                                FGt(args.hourly_wind_speeds[i], Flt(0))
            IN  /\ FGe(scaled, result.val)
                /\ windy => FGt(scaled, result.val)
                /\ ~windy => (scaled = Flt(0) /\ result.val = Flt(0))

\* a series with a calm hour and a windy hour: scaling it raises Qupot
C13_Witness ==
    /\ Called("compute_Qupot")
    /\ NonNegative(args.hourly_wind_speeds)
    /\ \E i, j \in 1..Len(args.hourly_wind_speeds) :
            /\ args.hourly_wind_speeds[i] = Flt(0)
            /\ FGt(args.hourly_wind_speeds[j], Flt(0))
    /\ FGt(compute_Qupot(Scaled(args.hourly_wind_speeds, Flt(2)), DT), result.val)

\* a float of the model as a product q * f: itself times 1 unless it is one
\* of the products FSat keeps
ProdOf(x) == IF Len(x) = 4 THEN <<<<x[1], x[2]>>, <<x[3], x[4]>>>> ELSE <<x, Flt(1)>>

\* the sign of a finite float: -1, 0 or 1
Sign(x) == IF x[1] < 0 THEN -1 ELSE IF x[1] = 0 THEN 0 ELSE 1

\* x <= y for two products: by their signs when these differ, else by the
\* factors f when q is the same, or by q when f is the same; false when
\* either is NaN
ProdLe(x, y) ==
    /\ ~IsNaN(x)
    /\ ~IsNaN(y)
    /\ LET q == ProdOf(x)[1]
           f == ProdOf(x)[2]
           p == ProdOf(y)[1]
           g == ProdOf(y)[2]
           sx == Sign(q) * Sign(f)
           sy == Sign(p) * Sign(g)
       IN  IF sx # sy THEN sx < sy
           ELSE IF sx = 0 THEN TRUE
           ELSE CASE q = p -> IF Sign(q) > 0 THEN FLe(f, g) ELSE FGe(f, g)
                  [] q # p /\ f = g -> IF Sign(f) > 0 THEN FLe(q, p) ELSE FGe(q, p)

ProdLt(x, y) == ProdLe(x, y) /\ ~ProdLe(y, x)

\* the preconditions of the Tabler parameters: T > 0, Swe >= 0, theta in
\* [0, 1], F >= 0 and non-negative wind speeds
TablerInputsOk ==
    /\ FGt(args.T, Flt(0))
    /\ FGe(args.F, Flt(0))
    /\ FGe(args.Swe, Flt(0))
    /\ FGe(args.theta, Flt(0))
    /\ FLe(args.theta, Flt(1))
    /\ NonNegative(args.hourly_wind_speeds)

\* C14: for T > 0, Swe >= 0, theta in [0, 1] and non-negative wind speeds,
\* the Qinf compute_snow_transport returns is at most Qupot and at most
\* Qspot, and Qt is at most Qinf.
C14_QinfIsMinimumGoverning ==
    (Called("compute_snow_transport") /\ TablerInputsOk)
    => /\ FLe(result.val.Qinf, result.val.Qupot)
       /\ FLe(result.val.Qinf, result.val.Qspot)
       /\ ProdLe(result.val.Qt, result.val.Qinf)

\* a snowfall-controlled call where Qinf is strictly below Qspot and Qupot,
\* and Qt strictly below Qinf
C14_Witness ==
    /\ Called("compute_snow_transport")
    /\ TablerInputsOk
    /\ result.val.Control = "Snowfall controlled"
    /\ FLt(result.val.Qinf, result.val.Qspot)
    /\ FLt(result.val.Qinf, result.val.Qupot)
    /\ ProdLt(result.val.Qt, result.val.Qinf)

\* Qt of the call in progress with the fetch distance replaced by F2
QtAtFetch(F2) ==
    compute_snow_transport(args.T, F2, args.theta, args.Swe,
                           args.hourly_wind_speeds, DT).Qt

\* C15 as stated: for fixed Qinf >= 0 and T > 0, Qt is non-decreasing in F,
\* strictly increasing in F when Qinf > 0, 0 at F = 0, and at most Qinf for
\* every F >= 0.
C15_FetchSaturationStrict ==
    (Called("compute_snow_transport") /\ TablerInputsOk)
    => /\ ProdLe(result.val.Qt, result.val.Qinf)
       /\ args.F = Flt(0) => result.val.Qt = Flt(0)
       /\ \A m \in FMultiples :
            LET F2 == FMul(m, args.T)
            IN  /\ FLe(args.F, F2) => ProdLe(result.val.Qt, QtAtFetch(F2))
                /\ (FLt(args.F, F2) /\ FGt(result.val.Qinf, Flt(0)))
                        => ProdLt(result.val.Qt, QtAtFetch(F2))

\* C15 amended: for fixed Qinf >= 0 and T > 0, Qt is non-decreasing in F, 0
\* at F = 0 and at most Qinf for every F >= 0; when Qinf > 0 it is strictly
\* increasing over the fetch distances 0, T, 10 T and 20 T, and from
\* F = 20 T on it equals Qinf, the factor 1 - 0.14 ** (F / T) being exactly
\* 1.0 there.
C15_FetchSaturation ==
    (Called("compute_snow_transport") /\ TablerInputsOk)
    => /\ ProdLe(result.val.Qt, result.val.Qinf)
       /\ args.F = Flt(0) => result.val.Qt = Flt(0)
       /\ FGe(args.F, FMul(Flt(20), args.T)) => result.val.Qt = result.val.Qinf
       /\ \A m \in FMultiples :
            LET F2 == FMul(m, args.T)
            IN  /\ FLe(args.F, F2) => ProdLe(result.val.Qt, QtAtFetch(F2))
                /\ (/\ FLt(args.F, F2)
                    /\ FLe(F2, FMul(Flt(20), args.T))
                    /\ FGt(result.val.Qinf, Flt(0)))
                        => ProdLt(result.val.Qt, QtAtFetch(F2))

\* a call with Qinf > 0 and F = 10 T: Qt is above its value at F = T, below
\* Qinf, and reaches Qinf at F = 20 T
C15_Witness ==
    /\ Called("compute_snow_transport")
    /\ TablerInputsOk
    /\ FGt(result.val.Qinf, Flt(0))
    /\ args.F = FMul(Flt(10), args.T)
    /\ ProdLt(QtAtFetch(args.T), result.val.Qt)
    /\ ProdLt(result.val.Qt, result.val.Qinf)
    /\ QtAtFetch(FMul(Flt(20), args.T)) = result.val.Qinf

\* the transport (kg/m) at which the claim expects H = 1.0 for a fence type,
\* NaN for a type that is not supported
UnitQt(ft) ==
    IF SameUpToCase(ft, <<"w", "y", "o", "m", "i", "n", "g">>) THEN Flt(8500)
    ELSE IF \/ SameUpToCase(ft, <<"s", "l", "a", "t", "-", "a", "n", "d", "-", "w", "i", "r", "e">>)
            \/ SameUpToCase(ft, <<"s", "l", "a", "t", " ", "a", "n", "d", " ", "w", "i", "r", "e">>)
         THEN Flt(7700)
    ELSE IF SameUpToCase(ft, <<"s", "o", "l", "i", "d">>) THEN Flt(2900)
    ELSE NaN

\* C16: for a supported fence type compute_fence_height returns exactly 1
\* when Qt is 8500 kg/m (Wyoming), 7700 (slat-and-wire) or 2900 (solid),
\* returns 0 when Qt is 0, and returns no less for a larger Qt >= 0.
C16_FenceHeightUnitAndMonotone ==
    (/\ Called("compute_fence_height")
     /\ ~IsNaN(UnitQt(args.fence_type))
     /\ FGe(args.Qt, Flt(0)))
    => /\ ReturnedOk
       /\ args.Qt = UnitQt(args.fence_type) => result.val = Flt(1)
       /\ args.Qt = Flt(0) => result.val = Flt(0)
       /\ \A Qt2 \in QtSamples :
            FLe(args.Qt, Qt2) => FLe(result.val, compute_fence_height(Qt2, args.fence_type))

\* a solid fence at 2900 kg/m: height 1, above the height at 1000 kg/m and
\* below the height at 7700 kg/m
C16_Witness ==
    /\ Called("compute_fence_height")
    /\ args.fence_type = <<"S", "o", "l", "i", "d">>
    /\ args.Qt = Flt(2900)
    /\ result = Returned(Flt(1))
    /\ FLt(compute_fence_height(Flt(1000), args.fence_type), result.val)
    /\ FLt(result.val, compute_fence_height(Flt(7700), args.fence_type))

\* C17: on 24 hourly observations of 10 m/s from 45 degrees at -5 C with
\* 1 mm of precipitation each, compute_sector_transport returns the whole
\* transport in sector index 2 (NE) and 0 in the 15 others, the NE value is
\* compute_Qupot of the 24 speeds, 24 times one hour's contribution, and the
\* Swe_total calculate_snow_drift sums over those hours is 24.
C17_ConstantNorthEastDay ==
    /\ (/\ Called("compute_sector_transport")
        /\ args.hourly_wind_speeds = DaySpeeds
        /\ args.hourly_wind_dirs = DayDirs)
       => /\ ReturnedOk
          /\ directions[2 + 1] = "NE"
          /\ result.val[2 + 1] = compute_Qupot(DaySpeeds, DT)
          /\ result.val[2 + 1] = FMul(Flt(24), FDiv(HourTerm(Flt(10), DT), Flt(233847)))
          /\ \A k \in 1..16 : k # 2 + 1 => result.val[k] = Flt(0)
    /\ (/\ Called("calculate_snow_drift")
        /\ args.dir = DayDir
        /\ \A h \in 1..24 : in_range(DayRows[h].time, args.start_date, args.end_date))
       => /\ ReturnedOk
          /\ locals.wind_speeds = DaySpeeds
          /\ locals.Swe_total = Flt(24)

\* the day has been binned, with transport in the NE sector
C17_Witness ==
    /\ Called("compute_sector_transport")
    /\ Len(args.hourly_wind_speeds) = 24
    /\ args.hourly_wind_speeds = DaySpeeds
    /\ args.hourly_wind_dirs = DayDirs
    /\ ReturnedOk
    /\ FGt(result.val[2 + 1], Flt(0))

\* the day has been summed by calculate_snow_drift
C17_WitnessSwe ==
    /\ Called("calculate_snow_drift")
    /\ args.dir = DayDir
    /\ ReturnedOk
    /\ Len(locals.df_period) = 24
    /\ locals.Swe_total = Flt(24)

\* the six fields of a transport estimate
TransportFields == {"Qupot", "Qspot", "Srwe", "Qinf", "Qt", "Control"}

\* C18: compute_snow_transport, in functions/Snow_drift.py and in
\* Pages/Snowdrift.py alike, returns the six fields Qupot, Qspot, Srwe,
\* Qinf, Qt and Control, with Qspot = 0.5 * T * Swe and Srwe = theta * Swe.
C18_AllSixFieldsInEveryVariant ==
    (Called("compute_snow_transport") \/ Called("Pages.Snowdrift.compute_snow_transport"))
    => /\ ReturnedOk
       /\ result.keys = TransportFields
       /\ result.val.Qspot = FMul(FMul(Rat(1, 2), args.T), args.Swe)
       /\ result.val.Srwe = FMul(args.theta, args.Swe)

\* the variant of functions/Snow_drift.py alone does return the six fields
C18_AllSixFieldsInFunctions ==
    Called("compute_snow_transport")
    => /\ ReturnedOk
       /\ result.keys = TransportFields
       /\ result.val.Qspot = FMul(FMul(Rat(1, 2), args.T), args.Swe)
       /\ result.val.Srwe = FMul(args.theta, args.Swe)

\* what the call of f on the arguments a gives when nothing else runs
AloneResult(f, a) ==
    CASE f = "compute_Qupot" -> Returned(compute_Qupot(a.hourly_wind_speeds, DT))
      [] f = "compute_sector_transport" ->
            IF compute_sector_transport_raises(a.hourly_wind_speeds, a.hourly_wind_dirs)
            THEN Raised("ValueError")
            ELSE Returned(compute_sector_transport(a.hourly_wind_speeds, a.hourly_wind_dirs, DT))
      [] f = "compute_snow_transport" ->
            ReturnedDict(compute_snow_transport(a.T, a.F, a.theta, a.Swe,
                                                a.hourly_wind_speeds, DT))
      [] f = "compute_average_sector" ->
            IF compute_average_sector_raises(a.df) THEN Raised("ValueError")
            ELSE Returned(compute_average_sector(a.df))
      [] f = "compute_fence_height" ->
            IF compute_fence_height_raises(a.Qt, a.fence_type) THEN Raised("ValueError")
            ELSE Returned(compute_fence_height(a.Qt, a.fence_type))

\* C19: whatever the interleaving of the threads' invocations of
\* compute_Qupot, compute_sector_transport, compute_snow_transport,
\* compute_average_sector and compute_fence_height, an invocation that has
\* finished has the result it has when run alone, and the caller's argument
\* objects are as they were given.
C19_InvocationsDoNotInterfere ==
    \A t \in Threads :
        frames[t].pc = "done"
        => /\ frames[t].result = AloneResult(frames[t].op, frames[t].given)
           /\ heap.args[t] = frames[t].given

\* two invocations of compute_sector_transport on different inputs have
\* both returned, one of them entered while the other was in its loop
C19_Witness ==
    /\ \A t \in Threads :
        /\ frames[t].pc = "done"
        /\ frames[t].op = "compute_sector_transport"
        /\ frames[t].result.exc = "None"
    /\ frames["t1"].given # frames["t2"].given
    /\ \E t \in Threads : frames[t].overlapped

\* some file of the directory listing is named as _COORD_FILE_REGEX wants
HasConventionFile(dir) == \E i \in 1..Len(dir) : dir[i].name_ok

\* C20: calculate_snow_drift and plot_wind_rose raise FileNotFoundError
\* exactly when the data directory holds no file named
\* open-meteo-<lat>N<lon>E<elev>m.csv; with such a file they do not raise
\* it, however far the file's coordinates are from those asked for.
C20_FileNotFoundIffNoConventionFile ==
    (Called("calculate_snow_drift") \/ Called("plot_wind_rose"))
    => (result.exc = "FileNotFoundError" <=> ~HasConventionFile(args.dir))

\* plot_wind_rose has drawn a rose from a file nine degrees off in both
\* coordinates
C20_Witness ==
    /\ Called("plot_wind_rose")
    /\ HasConventionFile(args.dir)
    /\ \A i \in 1..Len(args.dir) : file_dist(args.dir[i], args.lat, args.lon) >= 18
    /\ ReturnedOk
    /\ result.val.kind = "rose"

---------------------------------------------------------------------------
(* plot_wind_rose on a range without data *)

\* no row of df is of a season within [start_year, end_year]
NoSeasonInRange(times, start_year, end_year) ==
    \A i \in 1..Len(times) :
        season_of(times[i]) < start_year \/ season_of(times[i]) > end_year

\* the file plot_wind_rose has loaded, as an index of the listing (0: none)
RoseFile == resolve_csv_path(args.lat, args.lon, args.dir)

\* the figure with a text and no bars, drawn after no transport and no
\* sector computation
PlaceholderOnly ==
    /\ ReturnedOk
    /\ result.val.kind = "text"
    /\ result.val.bars = <<>>
    /\ \A i \in 1..Len(trace) :
          trace[i] \notin {"compute_snow_transport", "compute_sector_transport",
                           "compute_average_sector", "compute_Qupot", "plot_rose"}

\* C21 (as the claim states it, for both files): plot_wind_rose, when no
\* observation has a season label within [start_year, end_year], returns
\* the placeholder figure and performs no transport or sector computation.
C21_NoSeasonInRangeGivesPlaceholder ==
    /\ (/\ Called("plot_wind_rose")
        /\ RoseFile # 0
        /\ ~load_meteo_csv_raises(args.dir[RoseFile])
        /\ NoSeasonInRange([i \in 1..Len(args.dir[RoseFile].rows) |->
                                args.dir[RoseFile].rows[i].time],
                           args.start_year, args.end_year))
       => PlaceholderOnly
    /\ (/\ Called("Pages.Snowdrift.plot_wind_rose")
        /\ args.start_year <= args.end_year
        /\ NoSeasonInRange([i \in 1..Len(args.archive) |-> args.archive[i].time],
                           args.start_year, args.end_year))
       => PlaceholderOnly

\* C21, for functions/Snow_drift.py alone: there the statement holds
C21_PlaceholderInFunctions ==
    (/\ Called("plot_wind_rose")
     /\ RoseFile # 0
     /\ ~load_meteo_csv_raises(args.dir[RoseFile])
     /\ NoSeasonInRange([i \in 1..Len(args.dir[RoseFile].rows) |->
                             args.dir[RoseFile].rows[i].time],
                        args.start_year, args.end_year))
    => PlaceholderOnly

---------------------------------------------------------------------------
(* The seasons of plot_wind_rose *)

\* the seasons whose window [1 July s 00:00:00, 30 June s+1 23:59:59]
\* holds time t
WindowsOf(t) == {y \in WindowYears : InSeasonWindow(t, y)}

\* C22: the season label and the seasonal window agree: in plot_wind_rose
\* every selected row lies in the window of its own label and in no other;
\* so the per-season filter keeps, for each season taken from the labels,
\* exactly the rows with that label (never none), every selected row is
\* counted in exactly one season's Qt, and that Qt is the transport of the
\* rows with the season's label.
C22_SeasonFilterMatchesLabels ==
    (Called("plot_wind_rose") /\ "seasons" \in DOMAIN locals) =>
        LET df_sel  == locals.df_sel
            seasons == locals.seasons
            kept(j) == filter_range(df_sel, Ts(seasons[j], 7, 1, 0, 0, 0),
                                    Ts(seasons[j] + 1, 6, 30, 23, 59, 59))
        IN  /\ \A i \in 1..Len(df_sel) :
                 /\ WindowsOf(df_sel[i].time) = {df_sel[i].season}
                 /\ Cardinality({j \in 1..Len(seasons) :
                                    InSeasonWindow(df_sel[i].time, seasons[j])}) = 1
            /\ Len(seasons) >= 1
            /\ Len(locals.qt_vals) = Len(seasons)
            /\ \A j \in 1..Len(seasons) :
                 /\ kept(j) # <<>>
                 /\ kept(j) = SeasonRows(df_sel, seasons[j])
                 /\ locals.qt_vals[j] =
                        compute_snow_transport(Flt(Tabler_T), Flt(Tabler_F), Tabler_theta,
                                               Swe_total_of(SeasonRows(df_sel, seasons[j])),
                                               wind_speeds_of(SeasonRows(df_sel, seasons[j])),
                                               DT).Qt

\* two seasons selected, one by its last hour (30 June, 23:00) and the
\* next by its first (1 July, 00:00), and a rose drawn from them
C22_Witness ==
    /\ Called("plot_wind_rose")
    /\ ReturnedOk
    /\ result.val.kind = "rose"
    /\ locals.seasons = <<FirstYear - 1, FirstYear>>
    /\ \E i, j \in 1..Len(locals.df_sel) :
          /\ locals.df_sel[i].time = Ts(FirstYear, 6, 30, 23, 0, 0)
          /\ locals.df_sel[j].time = Ts(FirstYear, 7, 1, 0, 0, 0)

---------------------------------------------------------------------------
(* _filter_range *)

\* the seconds from the start of the year before FirstYear to time t, every
\* month counted as 31 days
Ordinal(t) ==
    ((((t[1] - FirstYear + 1) * 12 + (t[2] - 1)) * 31 + (t[3] - 1)) * 24 + t[4]) * 3600
        + t[5] * 60 + t[6]

\* row r has the columns _load_meteo_csv gives and not Swe_hourly
LoadedColumns(r) ==
    DOMAIN r = {"time", "temperature", "precipitation", "wind_speed", "wind_direction", "season"}

\* C23: _filter_range keeps exactly the rows whose time t satisfies
\* start_date <= t <= end_date, both bounds included, in their order, and
\* returns a copy: a column added to what it returned is not added to the
\* dataframe it was given.
C23_FilterRangeInclusiveCopy ==
    Called("_filter_range") =>
        LET kept == SelectSeq(args.df, LAMBDA r :
                        /\ Ordinal(args.start_date) <= Ordinal(r.time)
                        /\ Ordinal(r.time) <= Ordinal(args.end_date))
        IN  /\ ReturnedOk
            /\ result.val = kept
            /\ locals.returned # locals.source
            /\ locals.objects[locals.source] = args.df
            /\ \A i \in 1..Len(args.df) : LoadedColumns(locals.objects[locals.source][i])
            /\ Len(locals.objects[locals.returned]) = Len(kept)
            /\ \A i \in 1..Len(kept) :
                 "Swe_hourly" \in DOMAIN locals.objects[locals.returned][i]

\* the season asked for, of a dataframe whose first row is the season's
\* last second and whose second row is the second after: the first row
\* alone is kept, and it gets the new column
C23_Witness ==
    /\ Called("_filter_range")
    /\ args.start_date = Ts(FirstYear, 7, 1, 0, 0, 0)
    /\ Len(args.df) = 2
    /\ args.df[1].time = args.end_date
    /\ args.df[2].time = Ts(FirstYear + 1, 7, 1, 0, 0, 0)
    /\ result.val = <<args.df[1]>>
    /\ "Swe_hourly" \in DOMAIN locals.objects[locals.returned][1]

---------------------------------------------------------------------------
(* calculate_monthly_snow_drift *)

\* the last second of the month of time t
LastSecondOfMonth(t) == Ts(t[1], t[2], DaysIn(t[1], t[2]), 23, 59, 59)

\* windows w split [start_date, end_date] into calendar months: the first
\* starts at start_date, each next one second after the one before ends,
\* each ends with its month or at end_date if that is earlier, and the last
\* ends at end_date
SplitsIntoMonths(w, start_date, end_date) ==
    /\ Len(w) >= 1
    /\ w[1][1] = start_date
    /\ \A k \in 1..Len(w) :
          /\ TsLe(w[k][1], w[k][2])
          /\ w[k][2] = IF TsLe(LastSecondOfMonth(w[k][1]), end_date)
                       THEN LastSecondOfMonth(w[k][1]) ELSE end_date
    /\ \A k \in 1..(Len(w) - 1) : Ordinal(w[k + 1][1]) = Ordinal(w[k][2]) + 1
                                    \/ (w[k][2][3] = DaysIn(w[k][2][1], w[k][2][2])
                                        /\ w[k + 1][1] = Ts(IF w[k][2][2] = 12 THEN w[k][2][1] + 1
                                                                                ELSE w[k][2][1],
                                                            (w[k][2][2] % 12) + 1, 1, 0, 0, 0))
    /\ w[Len(w)][2] = end_date

\* the twelve labels Y-07 ... (Y+1)-06
SeasonMonths(y) == [k \in 1..12 |-> IF k <= 6 THEN <<y, k + 6>> ELSE <<y + 1, k - 6>>]

\* C24 (as the claim states it): calculate_monthly_snow_drift terminates for
\* every start_date < end_date and splits the range into consecutive
\* calendar-month windows that do not overlap and whose union covers
\* [start_date, end_date]; for a season it produces exactly 12 rows labelled
\* Y-07 ... (Y+1)-06 in order.
C24_MonthlyWindowsCoverRange ==
    (/\ Called("calculate_monthly_snow_drift")
     /\ TsLtFrom(args.start_date, args.end_date, 1)
     /\ ReturnedOk)
    => /\ SplitsIntoMonths(locals.windows, args.start_date, args.end_date)
       /\ Len(result.val) = Len(locals.windows)
       /\ \A k \in 1..Len(result.val) : result.val[k].month = strftime_Ym(locals.windows[k][1])
       /\ \A y \in Years :
            (args.start_date = Ts(y, 7, 1, 0, 0, 0) /\ args.end_date = Ts(y + 1, 6, 30, 23, 59, 59))
            => [k \in 1..Len(result.val) |-> result.val[k].month] = SeasonMonths(y)

\* the season of FirstYear, split into its twelve months
C24_SeasonHasTwelveMonths ==
    /\ Called("calculate_monthly_snow_drift")
    /\ ReturnedOk
    /\ args.start_date = Ts(FirstYear, 7, 1, 0, 0, 0)
    /\ args.end_date = Ts(FirstYear + 1, 6, 30, 23, 59, 59)
    /\ [k \in 1..Len(result.val) |-> result.val[k].month] = SeasonMonths(FirstYear)

---------------------------------------------------------------------------
(* The seasonal loop of the Energy Map page *)

\* C25 (as the claim states it): for a selected year range
\* [start_year, end_year] the Energy Map page produces exactly one annual
\* result per year y of the range, in increasing order, each computed over
\* [July 1 y 00:00:00, June 30 y+1 23:59:59] and labelled "y-(y+1)"; if a
\* season's computation raises FileNotFoundError the page reports the error
\* and stops before rendering any annual or monthly chart.
C25_OneAnnualResultPerYear ==
    (/\ script.entry = "EnergyMap"
     /\ ~script.given.means_empty
     /\ HasKey(session, "clicked_point")
     /\ Truthy(session.clicked_point))
    => LET start_year == script.given.slider[1]
           end_year   == script.given.slider[2]
       IN  IF HasConventionFile(script.given.dir)
           THEN /\ Len(script.annual_results) = end_year - start_year + 1
                /\ \A k \in 1..Len(script.annual_results) :
                     LET y == start_year + k - 1
                     IN  /\ script.annual_results[k].year = <<y, y + 1>>
                         /\ script.annual_results[k].window =
                               <<Ts(y, 7, 1, 0, 0, 0), Ts(y + 1, 6, 30, 23, 59, 59)>>
           ELSE /\ script.stopped
                /\ \E k \in 1..Len(script.rendered) : script.rendered[k] = "error"
                /\ \A k \in 1..Len(script.rendered) :
                     script.rendered[k] \notin {"annual chart", "monthly chart"}

---------------------------------------------------------------------------
(* The two copies of the Tabler core *)

\* C26: the two implementations of the Tabler core agree: on the same
\* inputs compute_snow_transport of Pages/Snowdrift.py returns exactly the
\* "Qt (kg/m)" value of compute_snow_transport of functions/Snow_drift.py,
\* and sector_index, compute_Qupot and compute_sector_transport return (or
\* raise) the same in both files.
C26_TablerCopiesAgree ==
    /\ Called("compute_Qupot") =>
          result = Returned(Pages_compute_Qupot(args.hourly_wind_speeds, DT))
    /\ Called("sector_index") =>
          result = IF Pages_sector_index_raises(args.direction) THEN Raised("ValueError")
                   ELSE Returned(Pages_sector_index(args.direction))
    /\ Called("compute_sector_transport") =>
          result = IF Pages_compute_sector_transport_raises(args.hourly_wind_speeds,
                                                            args.hourly_wind_dirs)
                   THEN Raised("ValueError")
                   ELSE Returned(Pages_compute_sector_transport(args.hourly_wind_speeds,
                                                                args.hourly_wind_dirs, DT))
    /\ Called("compute_snow_transport") =>
          result.val.Qt = Pages_compute_snow_transport(args.T, args.F, args.theta, args.Swe,
                                                       args.hourly_wind_speeds, DT)
    /\ Called("Pages.Snowdrift.compute_snow_transport") =>
          result.val = compute_snow_transport(args.T, args.F, args.theta, args.Swe,
                                              args.hourly_wind_speeds, DT).Qt

\* the page's copy has returned a transport above zero for two windy hours
\* with snowfall in control
C26_Witness ==
    /\ Called("Pages.Snowdrift.compute_snow_transport")
    /\ Len(args.hourly_wind_speeds) = 2
    /\ ~IsNaN(result.val)
    /\ result.val # Flt(0)
    /\ snowfall_controlled(compute_Qupot(args.hourly_wind_speeds, DT),
                           FMul(FMul(Rat(1, 2), args.T), args.Swe))

---------------------------------------------------------------------------
(* streamlit_app.py: the session key and the sidebar *)

\* C27 (as the claim states it): in every run of streamlit_app.py, the
\* first run of a session included, chosen_area is initialised before the
\* selected page's code can read it: when the run comes to load and execute
\* a page, the key is in st.session_state.
C27_ChosenAreaInitialisedBeforePage ==
    (script.entry = "streamlit_app" /\ script.opened # "")
    => script.initialised_at_dispatch

\* the groups of the sidebar
PageGroupNames == {"Overview", "Analysis", "Mapping", "Forecasting"}

\* the run of streamlit_app.py on the radio selections given shows the page
\* of label: its file is the one loaded, or, for Home, the welcome text is
\* shown and no file is loaded
RunsEntry(given, label, page) ==
    LET run == App_script(script.before, given).script
    IN  /\ run.choice = label
        /\ run.page_file = page
        /\ IF page = "Home"
           THEN run.opened = "" /\ (\E k \in 1..Len(run.rendered) : run.rendered[k] = "welcome")
           ELSE run.opened = page

\* C28 (as the claim states it): every page listed in page_groups is
\* reachable through the sidebar: for each entry of each of the four groups
\* there is a combination of radio selections for which that entry is the
\* page the app runs, and selecting the Home entry shows the welcome text
\* instead of loading a page file.
C28_EveryPageReachable ==
    script.entry = "streamlit_app"
    => /\ \A g \in PageGroupNames : \A k \in 1..Len(page_groups[g]) :
            \E given \in AppGivens : RunsEntry(given, page_groups[g][k][1], page_groups[g][k][2])
       /\ script.given.Overview = ":house: Home"
            => /\ script.opened = ""
               /\ \E k \in 1..Len(script.rendered) : script.rendered[k] = "welcome"

---------------------------------------------------------------------------
(* The click on the map *)

\* the features whose geometry is a polygon that contains the point
PolygonsAt(point) ==
    {k \in 1..Len(GeoFeatures) :
        GeoFeatures[k].geom_type \in {"Polygon", "MultiPolygon"}
            /\ point \in GeoFeatures[k].points}

\* the first of them
FirstPolygonAt(point) == CHOOSE k \in PolygonsAt(point) : \A j \in PolygonsAt(point) : k <= j

\* a value of the session before a run, None standing for a key that the
\* run is the first to set
Before(k) == IF script.before[k] = Absent THEN PyNone ELSE script.before[k]

\* the run has shown the map, so that a click on it can be reported
MapShown == \E k \in 1..Len(script.rendered) : script.rendered[k] = "map"

---------------------------------------------------------------------------
(* normalize_area_name *)

\* a string of three characters that starts with "N0"
ThreeCharsN0(name) ==
    name.type = "str" /\ Len(name.chars) = 3 /\ name.chars[1] = "N" /\ name.chars[2] = "0"

\* "NO" plus the last character of the string
NOPlusLast(name) == PyStr(<<"N", "O", name.chars[Len(name.chars)]>>)

\* a string without a space in it
NoSpaces(name) == name.type = "str" /\ \A k \in 1..Len(name.chars) : name.chars[k] # " "

\* the string without its spaces; any other value as it is
WithoutSpaces(name) ==
    IF name.type = "str" THEN PyStr(SelectSeq(name.chars, LAMBDA c : c # " ")) ELSE name

\* C30, as stated: normalize_area_name never raises; either variant maps a
\* string of three characters that starts with "N0" to "NO" plus its last
\* character and returns every other value as it is; applying it twice gives
\* what applying it once gives; and the two variants return the same for
\* every string without spaces.
C30_NormalizeAsStated ==
    Called("normalize_area_name") =>
        /\ ReturnedOk
        /\ result.val = IF ThreeCharsN0(args.name) THEN NOPlusLast(args.name) ELSE args.name
        /\ normalize_area_name(args.page, result.val) = result.val
        /\ NoSpaces(args.name) =>
              Map_normalize_area_name(args.name) = EnergyMap_normalize_area_name(args.name)

\* C30, amended: normalize_area_name never raises and applying it twice
\* gives what applying it once gives. The Map.py variant maps a string of
\* three characters that starts with "N0" to "NO" plus its last character
\* and returns every other value as it is. The Energy Map variant returns
\* what the Map.py variant returns for the string with its spaces removed
\* (a value that is not a string as it is). The two variants return the
\* same for every string without spaces.
C30_NormalizeIdempotentTotal ==
    Called("normalize_area_name") =>
        /\ ReturnedOk
        /\ normalize_area_name(args.page, result.val) = result.val
        /\ args.page = "Map" =>
              result.val = IF ThreeCharsN0(args.name) THEN NOPlusLast(args.name) ELSE args.name
        /\ args.page = "EnergyMap" =>
              result.val = IF ThreeCharsN0(WithoutSpaces(args.name))
                           THEN NOPlusLast(WithoutSpaces(args.name))
                           ELSE WithoutSpaces(args.name)
        /\ NoSpaces(args.name) =>
              Map_normalize_area_name(args.name) = EnergyMap_normalize_area_name(args.name)

\* the Energy Map variant has been given "N 01", which has four characters,
\* and has returned "NO1"
C30_Witness ==
    /\ Called("normalize_area_name")
    /\ args.page = "EnergyMap"
    /\ args.name = PyStr(<<"N", " ", "0", "1">>)
    /\ result = Returned(PyStr(<<"N", "O", "1">>))

====
